---- MODULE Spec2Model ----
(***************************************************************************)
(* NIC/IP allocation engine of sdc-napi: the provisioner objects, the      *)
(* nicAndIP retry loop (lib/models/nic/provision.js), the update chain     *)
(* (the PUT /nics/:mac module) and the delete chain, running as concurrent *)
(* requests on a store of versioned (etag) records with atomic batch       *)
(* commits; and the earlier in-memory nic model with its reserved IPs.     *)
(***************************************************************************)
EXTENDS Integers, Sequences, FiniteSets, TLC

\* ------------------------------------------------------------------ bounds

\* util_mac.maxOUInum(): the MAC numbers of the configured OUI are 1..MaxMac.
MaxMac == 2
\* Addresses of every logical network are 1..MaxAddr.
MaxAddr == 2
\* Number of ownership reassignments of IP records by other operations.
MaxReassign == 1
\* constants.MAC_RETRIES
MAC_RETRIES == 1

\* null / undefined for numbers (a MAC, an address, an etag)
Null == 0

Reqs == {"r1", "r2"}
MACs == 1..MaxMac
Addrs == 1..MaxAddr
Nets == {"N1", "N2"}
Owners == {"O1", "O2"}
\* Networks with fabric=true
FabricNets == {"N1"}
\* pool.networks of the one network pool
PoolNetworks == <<"N1", "N2">>

\* ------------------------------------------------------------------ values

\* common.BUCKET.name, the single NIC bucket
NicBucket == "napi_nics"

\* mod_ip.bucketName(uuid): one bucket per logical network.
bucketName(uuid) ==
    CASE uuid = "N1" -> "napi_ips_N1"
      [] uuid = "N2" -> "napi_ips_N2"
      [] OTHER -> "napi_ips_undefined"

\* The uuid of the network a bucket name belongs to.
bucketNet(b) == CHOOSE n \in Nets : bucketName(n) = b

NoErr == [name |-> "none", stop |-> FALSE, bucket |-> "none", key |-> Null,
          network_uuid |-> "none", msg |-> "none"]

\* Moray's EtagConflictError: context names the bucket and key that conflicted.
EtagConflictError(bucket, key) ==
    [name |-> "EtagConflictError", stop |-> FALSE, bucket |-> bucket,
     key |-> key, network_uuid |-> "none", msg |-> "none"]

\* errors.SubnetFullError as raised by nextIPonNetwork: stop is set.
SubnetFullError(net) ==
    [name |-> "SubnetFullError", stop |-> TRUE, bucket |-> "none",
     key |-> Null, network_uuid |-> net, msg |-> "subnet_full"]

StopError(name, msg) ==
    [name |-> name, stop |-> TRUE, bucket |-> "none", key |-> Null,
     network_uuid |-> "none", msg |-> msg]

PlainError(name, msg) ==
    [name |-> name, stop |-> FALSE, bucket |-> "none", key |-> Null,
     network_uuid |-> "none", msg |-> msg]

\* An IP object: its network, address, belongs_to_uuid and the etag of the
\* record it was loaded from (Null when there is no record).
NoIP == [net |-> "none", addr |-> Null, owner |-> "none", etag |-> Null]
IPObj(net, addr, owner, etag) ==
    [net |-> net, addr |-> addr, owner |-> owner, etag |-> etag]

\* A NIC object.
NoNic == [mac |-> Null, owner |-> "none", net |-> "none", addr |-> Null,
          etag |-> Null, vnetCns |-> "none", primary |-> FALSE,
          underlay |-> FALSE]

\* Records of the store.
NoIPRec == [exists |-> FALSE, owner |-> "none", etag |-> Null]
NoNicRec == [exists |-> FALSE, owner |-> "none", net |-> "none",
             addr |-> Null, etag |-> Null, primary |-> FALSE,
             underlay |-> FALSE]

\* ------------------------------------------------------------------ state

VARIABLES
    nics,       \* NIC bucket: MAC -> record
    ips,        \* IP buckets: <<network, address>> -> record
    reassigns,  \* ownership reassignments done so far
    netDown,    \* networks whose record cannot be fetched at the moment
    pc,         \* position of each request in its pipeline
    opts,       \* the opts object of each request
    prov,       \* the provisioner of each request
    commits,    \* number of batches each request has had applied
    data,       \* app.data of the in-memory nic model: nics and reserved IPs
    call        \* the call of the in-memory nic model that is under way

vars == <<nics, ips, reassigns, netDown, pc, opts, prov, commits, data, call>>
store == <<nics, ips>>

\* A network as the provisioners hold it: the network object (isObj), or
\* only its uuid string, on which a .uuid property read yields undefined.
NetObj(uuid) == [isObj |-> TRUE, uuid |-> uuid]
NetStr(uuid) == [isObj |-> FALSE, uuid |-> uuid]
NoNet == [isObj |-> FALSE, uuid |-> "none"]
\* JavaScript's value.uuid
PropUuid(n) == IF n.isObj THEN n.uuid ELSE "undefined"

NoProv == [type |-> "none", ip |-> NoIP, network |-> NoNet, field |-> "none",
           poolUUIDs |-> <<>>]

\* The opts object before a request has started.
NoOpts ==
    [kind |-> "none", nicFn |-> "none",
     mac |-> Null,                \* validated.mac
     owner |-> "none",            \* validated.belongs_to_uuid
     hasOwner |-> FALSE,          \* validated.hasOwnProperty('belongs_to_uuid')
     primary |-> FALSE,           \* validated.primary
     hasPrimary |-> FALSE,        \* validated.hasOwnProperty('primary')
     underlay |-> FALSE,          \* validated.underlay
     hasUnderlay |-> FALSE,       \* validated.hasOwnProperty('underlay')
     hasIP |-> FALSE, ip |-> NoIP, \* validated._ip
     network |-> "none",          \* validated.network
     pool |-> FALSE,              \* validated.network_pool
     reqIP |-> NoIP,              \* params.ip with params.network_uuid
     baseOwner |-> "none",        \* baseParams.belongs_to_uuid
     provisionableIPs |-> <<>>,   \* _provisionableIPs
     removeIPs |-> <<>>,          \* _removeIPs
     existingNic |-> NoNic, existingIP |-> NoIP,
     err |-> NoErr, batch |-> <<>>, ips |-> <<>>,
     nic |-> NoNic, macTries |-> 0,
     vnetCns |-> "none",
     result |-> NoErr]

\* ------------------------------------------------------------------
\* The in-memory nic model (part_002:307-812): app.data holds the nics by
\* MAC number and, per logical network, the map of reserved IP numbers.

\* The MAC numbers findNextFreeMAC walks through (1..16777215 in the code).
MemMaxMac == 3
\* The last IP number of a logical network; the first one is 1.
MemEndIP == 3

MemMacs == 1..MemMaxMac
MemIPs == 1..MemEndIP
MemNets == {"A", "B"}

\* app.data.networks[uuid]: the range of the logical network. Network A has
\* MemEndIP addresses, network B one less.
Network(uuid) ==
    [startIP |-> 1, endIP |-> IF uuid = "A" THEN MemEndIP ELSE MemEndIP - 1]

\* What a createNic call says about its network and IP: netUUID and no
\* params.ip, or params.ip with the one network that matches the network
\* parameters ("none": not exactly one matches).
MemParams ==
    {[netUUID |-> u, ip |-> Null, matching |-> "none"] :
        u \in MemNets \cup {"none", "unknown"}}
    \cup {[netUUID |-> "none", ip |-> 1, matching |-> "none"]}
    \cup UNION {{[netUUID |-> "none", ip |-> a, matching |-> u] :
                    a \in Network(u).startIP..Network(u).endIP} :
                u \in MemNets}

\* No entry under a key of app.data.nics / of ips.reserved.
NoMemNic == [exists |-> FALSE, belongs_to_uuid |-> "none", ip |-> Null,
             network |-> "none"]
NoReserved == [exists |-> FALSE, nic |-> Null, belongs_to_uuid |-> "none"]

\* app.data before any call.
NoData == [nics |-> [m \in MemMacs |-> NoMemNic],
           reserved |-> [x \in MemNets \X MemIPs |-> NoReserved]]

\* No call is under way; result is what the last call handed to its
\* callback.
NoCall == [fn |-> "none", netUUID |-> "none", startAt |-> Null, ip |-> Null,
           num |-> Null, hasMac |-> FALSE, mac |-> Null,
           belongs_to_uuid |-> "none", result |-> "none"]

\* NICs 1..k exist before any request starts, each owned by O1 and holding
\* the address of N1 that equals its MAC number, when there is one.
InitNics(k) ==
    [m \in MACs |->
        IF m <= k
        THEN [exists |-> TRUE, owner |-> "O1",
              net |-> IF m \in Addrs THEN "N1" ELSE "none",
              addr |-> IF m \in Addrs THEN m ELSE Null, etag |-> 1,
              primary |-> FALSE, underlay |-> FALSE]
        ELSE NoNicRec]

InitIPs(k) ==
    [x \in Nets \X Addrs |->
        IF x[1] = "N1" /\ x[2] <= k /\ x[2] \in MACs
        THEN [exists |-> TRUE, owner |-> "O1", etag |-> 1]
        ELSE NoIPRec]

Init ==
    /\ \E k \in 0..MaxMac : nics = InitNics(k) /\ ips = InitIPs(k)
    /\ reassigns = 0
    /\ netDown = {}
    /\ data = NoData
    /\ call = NoCall
    /\ pc = [r \in Reqs |-> "idle"]
    /\ opts = [r \in Reqs |-> NoOpts]
    /\ prov = [r \in Reqs |-> NoProv]
    /\ commits = [r \in Reqs |-> 0]

\* ------------------------------------------------------------------ records

\* A batch item: a conditional put on bucket/key, expecting version etag.
\* IP.batch(): put the IP record with its ownership.
ipBatch(ip) ==
    [op |-> "put", bucket |-> bucketName(ip.net), key |-> ip.addr,
     etag |-> ip.etag, owner |-> ip.owner, net |-> ip.net, addr |-> ip.addr,
     vnetCns |-> "none"]

\* IP.batch({ free: true }): put the record back without an owner.
ipFreeBatch(ip) ==
    [op |-> "free", bucket |-> bucketName(ip.net), key |-> ip.addr,
     etag |-> ip.etag, owner |-> "none", net |-> ip.net, addr |-> ip.addr,
     vnetCns |-> "none"]

\* Nic.batch({ vnetCns }): put the NIC record under its MAC; vnetCns is
\* the list of compute nodes handed over for the overlay log.
nicPutBatch(nic, vnetCns) ==
    [op |-> "nicput", bucket |-> NicBucket, key |-> nic.mac,
     etag |-> nic.etag, owner |-> nic.owner, net |-> nic.net,
     addr |-> nic.addr, vnetCns |-> vnetCns, primary |-> nic.primary,
     underlay |-> nic.underlay]

\* The second item of Nic.batch() for a primary NIC: one update of the NIC
\* bucket that the store evaluates when the batch is applied, clearing
\* primary on every other NIC of the owner. It names no key and carries no
\* etag.
nicUnsetPrimaryBatch(nic) ==
    [op |-> "unsetPrimary", bucket |-> NicBucket, key |-> Null,
     etag |-> Null, owner |-> nic.owner, net |-> "none", addr |-> nic.mac,
     vnetCns |-> "none", primary |-> FALSE]

\* Nic.batch({ vnetCns }): the put of the NIC and, for a primary NIC, the
\* item unsetting the owner's other primaries.
nicBatchItems(nic, vnetCns) ==
    <<nicPutBatch(nic, vnetCns)>>
        \o (IF nic.primary THEN <<nicUnsetPrimaryBatch(nic)>> ELSE <<>>)

\* Nic.delBatch({ vnetCns }): delete the NIC record under its MAC.
nicDelBatch(nic, vnetCns) ==
    [op |-> "nicdel", bucket |-> NicBucket, key |-> nic.mac,
     etag |-> nic.etag, owner |-> nic.owner, net |-> nic.net,
     addr |-> nic.addr, vnetCns |-> vnetCns, primary |-> nic.primary,
     underlay |-> nic.underlay]

\* IP.unassignBatch(): put the record back with its ownership cleared; the
\* record stays.
ipUnassignBatch(ip) ==
    [op |-> "unassign", bucket |-> bucketName(ip.net), key |-> ip.addr,
     etag |-> ip.etag, owner |-> "none", net |-> ip.net, addr |-> ip.addr,
     vnetCns |-> "none"]

\* IP.provisionable(): no owner is set on the record.
provisionable(ip) == ip.owner = "none"

\* mod_ip.createUpdated(ip, baseParams): the same record (and etag) with the
\* ownership of baseParams.
createUpdated(ip, baseOwner) == [ip EXCEPT !.owner = baseOwner]

\* The IP object of the record at <<net, addr>> of store S.
loadIP(S, net, addr) ==
    IPObj(net, addr, S[<<net, addr>>].owner, S[<<net, addr>>].etag)

\* mod_ip.nextIPonNetwork(opts, network): the possible results, one per
\* random starting offset: a free address of the network, with baseParams'
\* ownership, or SubnetFullError when no address is free.
nextIPonNetwork(S, net, baseOwner) ==
    LET free == {a \in Addrs : S[<<net, a>>].owner = "none"}
    IN  IF free = {}
        THEN {[err |-> SubnetFullError(net), ip |-> NoIP]}
        ELSE {[err |-> NoErr,
               ip |-> IPObj(net, a, baseOwner, S[<<net, a>>].etag)] : a \in free}

\* ------------------------------------------------------------------ provisioners
\* A provisioner step yields [p, o, err]: the provisioner and opts after
\* the call, and the error passed to the callback (NoErr for none).

Outcome(p, o, err) == [p |-> p, o |-> o, err |-> err]

\* Provisioner.batchIP (provision.js:80-85)
batchIP(p, o) ==
    Outcome(p, [o EXCEPT !.ips = Append(@, p.ip),
                         !.batch = Append(@, ipBatch(p.ip))], NoErr)

\* fetchNextIP that leaves the stop flag on the error whatever dontStop is.
fetchNextIP_keepStop(p, o, dontStop, S) ==
    { IF x.err # NoErr
      THEN Outcome(p, o, x.err)
      ELSE batchIP([p EXCEPT !.ip = x.ip], o)
      : x \in nextIPonNetwork(S, p.network.uuid, o.baseOwner) }

\* Provisioner.fetchNextIP (provision.js:58-74)
fetchNextIP(p, o, dontStop, S) ==
    { IF x.err # NoErr
      THEN Outcome(p, o, IF dontStop /\ x.err.stop
                         THEN [x.err EXCEPT !.stop = FALSE]
                         ELSE x.err)
      ELSE batchIP([p EXCEPT !.ip = x.ip], o)
      : x \in nextIPonNetwork(S, p.network.uuid, o.baseOwner) }

\* Whether haveEtagFailure gets as far as computing the bucket name
\* (provision.js:92-108).
reachesBucketName(p, err) ==
    /\ err # NoErr
    /\ p.ip # NoIP
    /\ err.name = "EtagConflictError"

\* Provisioner.haveEtagFailure (provision.js:91-110)
haveEtagFailure(p, err) ==
    /\ reachesBucketName(p, err)
    /\ err.bucket = bucketName(PropUuid(p.network))
    /\ err.key = p.ip.addr

\* mod_ip.bucketName(undefined): whether the call of provision.js:108 is
\* made with undefined, where the bucket-name function may throw.
bucketNameOfUndefined(p, err) ==
    reachesBucketName(p, err) /\ PropUuid(p.network) = "undefined"

\* new IPProvision(ip, field) (provision.js:116-122)
IPProvision(ip, field) ==
    [type |-> "ip", ip |-> ip, network |-> NetStr(ip.net), field |-> field,
     poolUUIDs |-> <<>>]

\* the error of IPProvision.provision (provision.js:128-134)
ipInUseError == StopError("InvalidParamsError", "ip_in_use")

\* IPProvision.prototype.provision (provision.js:126-139)
provisionIP(p, o) ==
    IF haveEtagFailure(p, o.err)
    THEN {Outcome(p, o, ipInUseError)}
    ELSE {batchIP(p, o)}

\* new NetworkProvision(network) (provision.js:145-152)
NetworkProvision(net) ==
    [type |-> "net", ip |-> NoIP, network |-> NetObj(net), field |-> "none",
     poolUUIDs |-> <<>>]

\* provisionNet that asks fetchNextIP to take the stop flag off.
provisionNet_dontStop(p, o, S) ==
    IF p.ip = NoIP \/ haveEtagFailure(p, o.err)
    THEN fetchNextIP(p, o, TRUE, S)
    ELSE {batchIP(p, o)}

\* provisionNet that fetches an IP in every iteration.
provisionNet_alwaysFetch(p, o, S) == fetchNextIP(p, o, FALSE, S)

\* NetworkProvision.prototype.provision (provision.js:156-165)
provisionNet(p, o, S) ==
    IF p.ip = NoIP \/ haveEtagFailure(p, o.err)
    THEN fetchNextIP(p, o, FALSE, S)
    ELSE {batchIP(p, o)}

\* new NetworkPoolProvision(pool, field) (provision.js:171-182)
NetworkPoolProvision(networks, field) ==
    [type |-> "pool", ip |-> NoIP, network |-> NoNet, field |-> field,
     poolUUIDs |-> networks]

poolFullError == StopError("InvalidParamsError", "pool_full")

\* nextNetwork that leaves the network it selects in the queue.
nextNetwork_noShift(p, o, S) ==
    IF p.poolUUIDs = <<>>
    THEN {Outcome(p, o, poolFullError)}
    ELSE fetchNextIP([p EXCEPT !.network = NetObj(Head(p.poolUUIDs))],
                     o, TRUE, S)

\* mod_net.get({ params: { uuid } }): the network object, or an error
\* without a stop flag while the record cannot be fetched.
netGetError == PlainError("InternalError", "network_get")
netGet(uuid) ==
    IF uuid \in netDown THEN [err |-> netGetError, res |-> NoNet]
    ELSE [err |-> NoErr, res |-> NetObj(uuid)]

\* NetworkPoolProvision.prototype.nextNetwork (provision.js:189-224): the
\* queue is shifted before the network is fetched.
nextNetwork(p, o, S) ==
    IF p.poolUUIDs = <<>>
    THEN {Outcome(p, o, poolFullError)}
    ELSE LET shifted == [p EXCEPT !.poolUUIDs = Tail(@)]
             got == netGet(Head(p.poolUUIDs))
         IN  IF got.err # NoErr
             THEN {Outcome(shifted, o, got.err)}
             ELSE fetchNextIP([shifted EXCEPT !.network = got.res],
                              o, TRUE, S)

\* NetworkPoolProvision.prototype.haveNetFailure (provision.js:230-242)
haveNetFailure(p, err) ==
    /\ err # NoErr
    /\ err.name = "SubnetFullError"
    /\ err.network_uuid = PropUuid(p.network)

\* provisionPool that moves on to the next network after every error.
provisionPool_anyErr(p, o, S) ==
    IF p.network = NoNet \/ o.err # NoErr
    THEN nextNetwork(p, o, S)
    ELSE IF p.ip = NoIP \/ haveEtagFailure(p, o.err)
         THEN fetchNextIP(p, o, TRUE, S)
         ELSE {batchIP(p, o)}

\* NetworkPoolProvision.prototype.provision (provision.js:245-258)
provisionPool(p, o, S) ==
    IF p.network = NoNet \/ haveNetFailure(p, o.err)
    THEN nextNetwork(p, o, S)
    ELSE IF p.ip = NoIP \/ haveEtagFailure(p, o.err)
         THEN fetchNextIP(p, o, TRUE, S)
         ELSE {batchIP(p, o)}

\* runProvisions (provision.js:475-482) over the request's provisioner
\* list, which holds zero or one provisioner.
runProvisions(p, o, S) ==
    CASE p.type = "ip" -> provisionIP(p, o)
      [] p.type = "net" -> provisionNet(p, o, S)
      [] p.type = "pool" -> provisionPool(p, o, S)
      [] OTHER -> {Outcome(p, o, NoErr)}

\* ------------------------------------------------------------------ NIC functions

\* new Nic(params) followed by the linkage to the IP selected in this
\* iteration (provision.js:297-302, 329-334, 371-376; part_002:128-132).
nicWithIPs(mac, owner, etag, ipList, primary) ==
    [mac |-> mac, owner |-> owner,
     net |-> IF Len(ipList) > 0 THEN ipList[1].net ELSE "none",
     addr |-> IF Len(ipList) > 0 THEN ipList[1].addr ELSE Null,
     etag |-> etag, vnetCns |-> "none", primary |-> primary,
     underlay |-> FALSE]

\* nicEtagFail that takes an etag conflict on any bucket for one on a NIC.
nicEtagFail_anyBucket(err) ==
    /\ err # NoErr
    /\ err.name = "EtagConflictError"

\* nicEtagFail (provision.js:264-275)
nicEtagFail(err) ==
    /\ err # NoErr
    /\ err.name = "EtagConflictError"
    /\ err.bucket = NicBucket

duplicateMacError == StopError("InvalidParamsError", "duplicate_mac")
noFreeMacError == StopError("InternalError", "no more free MAC addresses")

\* macSuppliedNic with the etag of whatever record is under the MAC.
macSuppliedNic_upsert(o) ==
    nicWithIPs(o.mac, o.owner, nics[o.mac].etag, o.ips, o.primary)

\* The NIC macSupplied builds from opts.validated, which carries no etag
\* (provision.js:297-306).
macSuppliedNic(o) ==
    LET n == nicWithIPs(o.mac, o.owner, Null, o.ips, o.primary)
    IN  IF n.net \in FabricNets /\ o.vnetCns # "none"
        THEN [n EXCEPT !.vnetCns = o.vnetCns]
        ELSE n

\* macSupplied (provision.js:283-309): the possible [o, err].
macSupplied(o) ==
    IF o.nic # NoNic /\ nicEtagFail(o.err)
    THEN {[o |-> o, err |-> duplicateMacError]}
    ELSE {[o |-> [o EXCEPT !.nic = macSuppliedNic(o)], err |-> NoErr]}

\* util_mac.randomNum(macOUI): any MAC number of the OUI.
randomNum == MACs

\* randomMAC that increments past the OUI maximum without drawing again.
randomMAC_noWrap(o) ==
    IF o.mac # Null /\ ~nicEtagFail(o.err)
    THEN {[o |-> [o EXCEPT !.nic = nicWithIPs(o.mac, o.owner, Null, o.ips, o.primary)],
           err |-> NoErr]}
    ELSE IF o.macTries > MAC_RETRIES
    THEN {[o |-> o, err |-> noFreeMacError]}
    ELSE LET first == IF o.mac = Null THEN randomNum ELSE {o.mac + 1}
         IN  {[o |-> [o EXCEPT !.macTries = @ + 1,
                               !.mac = m,
                               !.nic = nicWithIPs(m, o.owner, Null, o.ips, o.primary)],
               err |-> NoErr] : m \in first}

\* randomMAC without the branch that keeps the MAC already chosen.
randomMAC_noReuse(o) ==
    IF o.macTries > MAC_RETRIES
    THEN {[o |-> o, err |-> noFreeMacError]}
    ELSE LET first == IF o.mac = Null THEN randomNum ELSE {o.mac + 1}
             cands == UNION {IF m > MaxMac THEN randomNum ELSE {m} : m \in first}
         IN  {[o |-> [o EXCEPT !.macTries = @ + 1,
                               !.mac = m,
                               !.nic = nicWithIPs(m, o.owner, Null, o.ips,
                                                  o.primary)],
               err |-> NoErr] : m \in cands}

\* randomMAC that gives up once macTries has reached MAC_RETRIES.
randomMAC_geq(o) ==
    IF o.mac # Null /\ ~nicEtagFail(o.err)
    THEN {[o |-> [o EXCEPT !.nic = nicWithIPs(o.mac, o.owner, Null, o.ips,
                                              o.primary)],
           err |-> NoErr]}
    ELSE IF o.macTries >= MAC_RETRIES
    THEN {[o |-> o, err |-> noFreeMacError]}
    ELSE LET first == IF o.mac = Null THEN randomNum ELSE {o.mac + 1}
             cands == UNION {IF m > MaxMac THEN randomNum ELSE {m} : m \in first}
         IN  {[o |-> [o EXCEPT !.macTries = @ + 1,
                               !.mac = m,
                               !.nic = nicWithIPs(m, o.owner, Null, o.ips,
                                                  o.primary)],
               err |-> NoErr] : m \in cands}

\* randomMAC (provision.js:316-380): the possible [o, err], one per random
\* draw.
randomMAC(o) ==
    IF o.mac # Null /\ ~nicEtagFail(o.err)
    THEN {[o |-> [o EXCEPT !.nic = nicWithIPs(o.mac, o.owner, Null, o.ips, o.primary)],
           err |-> NoErr]}
    ELSE IF o.macTries > MAC_RETRIES
    THEN {[o |-> o, err |-> noFreeMacError]}
    ELSE LET first == IF o.mac = Null THEN randomNum ELSE {o.mac + 1}
             cands == UNION {IF m > MaxMac THEN randomNum ELSE {m} : m \in first}
         IN  {[o |-> [o EXCEPT !.macTries = @ + 1,
                               !.mac = m,
                               !.nic = nicWithIPs(m, o.owner, Null, o.ips, o.primary)],
               err |-> NoErr] : m \in cands}

\* Updatable nic params (part_002:38-59), as far as the model has them.
UPDATE_PARAMS == {"belongs_to_uuid", "ip", "network_uuid", "primary"}

\* getUpdatedNicParams (part_002:141-153): the existing NIC's serialized
\* parameters, overridden by the updatable parameters that were supplied,
\* with the existing NIC's etag.
getUpdatedNicParams(o) ==
    [mac |-> o.existingNic.mac,
     owner |-> IF "belongs_to_uuid" \in UPDATE_PARAMS /\ o.hasOwner
               THEN o.owner ELSE o.existingNic.owner,
     primary |-> IF "primary" \in UPDATE_PARAMS /\ o.hasPrimary
                 THEN o.primary ELSE o.existingNic.primary,
     underlay |-> IF "underlay" \in UPDATE_PARAMS /\ o.hasUnderlay
                  THEN o.underlay ELSE o.existingNic.underlay,
     etag |-> o.existingNic.etag]

\* addUpdatedNic (part_002:119-135)
addUpdatedNic(o) ==
    LET u == getUpdatedNicParams(o)
    IN  {[o |-> [o EXCEPT !.nic = [nicWithIPs(u.mac, u.owner, u.etag, o.ips,
                                              u.primary)
                                      EXCEPT !.underlay = u.underlay]],
          err |-> NoErr]}

\* opts.nicFn(opts, callback)
callNicFn(o) ==
    CASE o.nicFn = "macSupplied" -> macSupplied(o)
      [] o.nicFn = "randomMAC" -> randomMAC(o)
      [] OTHER -> addUpdatedNic(o)

\* freeOldIPs (provision.js:42-50)
freeOldIPs(o) ==
    [o EXCEPT !.batch = @ \o [i \in 1..Len(o.removeIPs) |->
                                 ipFreeBatch(o.removeIPs[i])]]

\* common.listVnetCns(vnet_id): the compute nodes on a fabric network.
cnsOf(net) == IF net = "N1" THEN "cns_N1" ELSE "cns_N2"

\* listVnetCns (provision.js:420-463): opts.vnetCns is assigned only when
\* an IP of this iteration is on a fabric network.
listVnetCns(o) ==
    LET fab == {i \in 1..Len(o.ips) : o.ips[i].net \in FabricNets}
    IN  IF fab = {} THEN o
        ELSE [o EXCEPT !.vnetCns = cnsOf(o.ips[CHOOSE i \in fab : TRUE].net)]

\* addNicToBatch that batches the put of the NIC alone.
addNicToBatch_putOnly(o) ==
    [o EXCEPT !.batch = @ \o <<nicPutBatch(o.nic, o.vnetCns)>>]

\* addNicToBatch / nicBatch (provision.js:404-413, 466-472)
addNicToBatch(o) ==
    [o EXCEPT !.batch = @ \o nicBatchItems(o.nic, o.vnetCns)]

\* addParams (provision.js:391-398)
addParams(o) ==
    [o EXCEPT !.nicFn = IF o.mac # Null THEN "macSupplied" ELSE "randomMAC",
              !.baseOwner = o.owner,
              !.provisionableIPs = IF o.hasIP THEN <<o.ip>> ELSE @]

\* The provisioner list nicAndIP builds (provision.js:501-517).
provisioners(o) ==
    IF o.hasIP
    THEN IPProvision(createUpdated(o.provisionableIPs[1], o.baseOwner),
                     "undefined")
    ELSE IF o.pool
    THEN NetworkPoolProvision(PoolNetworks, "network_uuid")
    ELSE IF o.network # "none"
    THEN NetworkProvision(o.network)
    ELSE NoProv

\* ------------------------------------------------------------------ the store

\* The record a batch item addresses.
recordOf(N, S, item) ==
    IF item.bucket = NicBucket THEN N[item.key]
    ELSE S[<<bucketNet(item.bucket), item.key>>]

\* Moray's etag check: a null etag demands that the key does not exist, any
\* other etag that the record is there with that version.
etagConflict(N, S, item) ==
    IF item.op = "unsetPrimary" THEN FALSE
    ELSE LET rec == recordOf(N, S, item)
         IN  IF item.etag = Null THEN rec.exists
             ELSE ~rec.exists \/ rec.etag # item.etag

\* The items of a batch that conflict with the store.
conflicts(N, S, batch) ==
    {i \in 1..Len(batch) : etagConflict(N, S, batch[i])}

\* The error of a failed commit: the first conflicting item's bucket and key.
commitError(N, S, batch) ==
    LET i == CHOOSE j \in conflicts(N, S, batch) :
                 \A k \in conflicts(N, S, batch) : j <= k
    IN  EtagConflictError(batch[i].bucket, batch[i].key)

\* A fresh etag for a key: one that no earlier version of the key had.
nextEtag(rec) == rec.etag + 1

\* The update item of a primary NIC's batch reaches the record under m:
\* another NIC of the item's owner.
unsetsPrimary(N, batch, m) ==
    \E i \in 1..Len(batch) :
        /\ batch[i].op = "unsetPrimary"
        /\ batch[i].addr # m
        /\ N[m].exists
        /\ N[m].owner = batch[i].owner

\* The NIC bucket after the batch is applied.
applyNics(N, batch) ==
    [m \in MACs |->
        IF \E i \in 1..Len(batch) :
              batch[i].bucket = NicBucket /\ batch[i].key = m
        THEN LET it == batch[CHOOSE i \in 1..Len(batch) :
                          batch[i].bucket = NicBucket /\ batch[i].key = m]
             IN  IF it.op = "nicdel"
                 THEN [NoNicRec EXCEPT !.etag = N[m].etag]
                 ELSE [exists |-> TRUE, owner |-> it.owner, net |-> it.net,
                       addr |-> it.addr, etag |-> nextEtag(N[m]),
                       primary |-> it.primary, underlay |-> it.underlay]
        ELSE IF unsetsPrimary(N, batch, m)
        THEN [N[m] EXCEPT !.primary = FALSE, !.etag = nextEtag(N[m])]
        ELSE N[m]]

\* The IP buckets after the batch is applied.
applyIPs(S, batch) ==
    [x \in Nets \X Addrs |->
        LET hit == {i \in 1..Len(batch) :
                       /\ batch[i].bucket = bucketName(x[1])
                       /\ batch[i].key = x[2]}
        IN  IF hit = {} THEN S[x]
            ELSE LET it == batch[CHOOSE i \in hit : \A j \in hit : i >= j]
                 IN  [exists |-> TRUE, owner |-> it.owner,
                      etag |-> nextEtag(S[x])]]

\* ------------------------------------------------------------------ requests

OkResult == [NoErr EXCEPT !.name = "ok"]
notFoundError == PlainError("ResourceNotFoundError", "not_found")
ipUsedByError == PlainError("InvalidParamsError", "ip_used_by")
typeError == PlainError("TypeError", "uuid of undefined")

\* belongs_to_uuid of the provisions, and of the updates ("none": the
\* update does not name an owner). The NICs of Init belong to O1.
CreateOwners == {"O2"}
UpdateOwners == {"O2", "none"}

\* The parameters of a provision: no IP, a specific IP, a network, the pool.
ProvisionModes ==
    {[m |-> "none", net |-> "none", addr |-> Null], 
     [m |-> "pool", net |-> "none", addr |-> Null]}
    \cup {[m |-> "ip", net |-> n, addr |-> a] : n \in Nets, a \in Addrs}
    \cup {[m |-> "net", net |-> n, addr |-> Null] : n \in Nets}

\* repeatDecision that asks for another iteration after a commit.
repeatDecision_again(err) ==
    IF err # NoErr
    THEN IF err.stop THEN "stop" ELSE "retry"
    ELSE "retry"

\* repeatDecision that retries after every error.
repeatDecision_ignoreStop(err) ==
    IF err # NoErr THEN "retry" ELSE "success"

\* What the pipeline callback of one iteration decides (provision.js:555-572).
repeatDecision(err) ==
    IF err # NoErr
    THEN IF err.stop THEN "stop" ELSE "retry"
    ELSE "success"

\* A request ends: callback(err) or callback(null, nic).
Finish(r, p, o, res) ==
    /\ pc' = [pc EXCEPT ![r] = "done"]
    /\ opts' = [opts EXCEPT ![r] = [o EXCEPT !.result = res]]
    /\ prov' = [prov EXCEPT ![r] = p]

\* Callback that asks for another iteration without keeping the error.
Callback_dropErr(r, p, o, err) ==
    LET d == repeatDecision(err)
    IN  IF d = "stop" THEN Finish(r, p, o, err)
        ELSE IF d = "success" THEN Finish(r, p, o, OkResult)
        ELSE /\ pc' = [pc EXCEPT ![r] = "runProvisions"]
             /\ opts' = [opts EXCEPT ![r] = o]
             /\ prov' = [prov EXCEPT ![r] = p]

\* The pipeline callback and util_common.repeat (provision.js:555-582):
\* a stop-flagged error ends the request, another error is kept in opts.err
\* for the next iteration, no error returns the NIC.
Callback(r, p, o, err) ==
    LET d == repeatDecision(err)
    IN  IF d = "stop" THEN Finish(r, p, o, err)
        ELSE IF d = "success" THEN Finish(r, p, o, OkResult)
        ELSE /\ pc' = [pc EXCEPT ![r] = "runProvisions"]
             /\ opts' = [opts EXCEPT ![r] = [o EXCEPT !.err = err]]
             /\ prov' = [prov EXCEPT ![r] = p]

\* A pipeline stage passes on to the next one.
Goto(r, p, o, to) ==
    /\ pc' = [pc EXCEPT ![r] = to]
    /\ opts' = [opts EXCEPT ![r] = o]
    /\ prov' = [prov EXCEPT ![r] = p]

\* nicAndIP up to the retry loop (provision.js:495-527): the provisioners
\* are built and the first iteration is due.
NicAndIP(r, o) == Goto(r, provisioners(o), o, "runProvisions")

\* Validation of a provision's parameters: a specific IP is loaded from the
\* store and must be provisionable.
validatedCreate(mac, owner, mode, S) ==
    [NoOpts EXCEPT !.kind = "provision", !.mac = mac, !.owner = owner,
                   !.hasOwner = TRUE,
                   !.hasIP = (mode.m = "ip"),
                   !.ip = IF mode.m = "ip" THEN loadIP(S, mode.net, mode.addr)
                          ELSE NoIP,
                   !.network = IF mode.m \in {"ip", "net"} THEN mode.net
                               ELSE "none",
                   !.pool = (mode.m = "pool")]

\* The primary parameter of a request: absent, or given with a value.
PrimaryAbsent == {[has |-> FALSE, val |-> FALSE]}
PrimaryGiven == {[has |-> TRUE, val |-> b] : b \in BOOLEAN}

\* POST /nics: validate, addParams, then nicAndIP.
CreateNic(r, Primaries) ==
    /\ pc[r] = "idle"
    /\ \E mac \in MACs \cup {Null}, owner \in CreateOwners,
          mode \in ProvisionModes, prim \in Primaries :
         LET v == [validatedCreate(mac, owner, mode, ips)
                       EXCEPT !.hasPrimary = prim.has, !.primary = prim.val]
         IN  IF v.hasIP /\ ~provisionable(v.ip)
             THEN Finish(r, NoProv, v, ipUsedByError)
             ELSE NicAndIP(r, addParams(v))
    /\ UNCHANGED <<nics, ips, reassigns, netDown, commits, data, call>>

\* A provision that does not name primary, and one that does.
Create(r) == CreateNic(r, PrimaryAbsent)
CreatePrimary(r) == CreateNic(r, PrimaryGiven)

\* The parameters of an update: the MAC, and optionally a new owner and a
\* new IP.
updateParams(mac, owner, ip) ==
    [NoOpts EXCEPT !.kind = "update", !.mac = mac,
                   !.hasOwner = (owner # "none"), !.owner = owner,
                   !.reqIP = ip]

\* The NIC object of the record under mac.
loadNic(N, mac) ==
    [mac |-> mac, owner |-> N[mac].owner, net |-> N[mac].net,
     addr |-> N[mac].addr, etag |-> N[mac].etag, vnetCns |-> "none",
     primary |-> N[mac].primary, underlay |-> N[mac].underlay]

\* getNic(opts, callback): the NIC object of the record under the MAC, or
\* the not-found error when there is no record.
getNic(N, mac) ==
    IF ~N[mac].exists
    THEN [err |-> notFoundError, res |-> NoNic]
    ELSE [err |-> NoErr, res |-> loadNic(N, mac)]

\* PUT /nics/:mac, update() with its first stage getExistingNic
\* (part_002:162-169, 267-277): the NIC and the IP record it names are
\* loaded; a missing NIC ends the request.
UpdateWith(r, Primaries, Underlays) ==
    /\ pc[r] = "idle"
    /\ \E mac \in MACs, owner \in UpdateOwners,
          ip \in {NoIP} \cup {IPObj(n, a, "none", Null) : n \in Nets, a \in Addrs},
          prim \in Primaries, under \in Underlays :
         LET o == [updateParams(mac, owner, ip)
                       EXCEPT !.hasPrimary = prim.has, !.primary = prim.val,
                              !.hasUnderlay = under.has,
                              !.underlay = under.val]
             got == getNic(nics, mac)
         IN  IF got.err # NoErr
             THEN Finish(r, NoProv, o, got.err)
             ELSE LET n == got.res
                  IN  Goto(r, NoProv,
                           [o EXCEPT !.existingNic = n,
                                     !.existingIP =
                                         IF n.addr # Null
                                         THEN loadIP(ips, n.net, n.addr)
                                         ELSE NoIP],
                           "validateUpdateParams")
    /\ UNCHANGED <<nics, ips, reassigns, netDown, commits, data, call>>

\* The underlay parameter of an update: absent, or given with a value.
UnderlayAbsent == {[has |-> FALSE, val |-> FALSE]}
UnderlayGiven == {[has |-> TRUE, val |-> b] : b \in BOOLEAN}

\* An update that does not name underlay.
UpdateNic(r, Primaries) == UpdateWith(r, Primaries, UnderlayAbsent)

\* An update that does not name primary, and one that does.
GetExistingNic(r) == UpdateNic(r, PrimaryAbsent)
UpdatePrimary(r) == UpdateNic(r, PrimaryGiven)

\* An update that names underlay.
UpdateUnderlay(r) == UpdateWith(r, PrimaryAbsent, UnderlayGiven)

\* validateUpdateParams with UPDATE_SCHEMA (part_002:62-108, 175-193): a
\* supplied IP is loaded from the store; without one the existing NIC's IP
\* and network are kept.
ValidateUpdateParams(r) ==
    /\ pc[r] = "validateUpdateParams"
    /\ LET o == opts[r]
           given == o.reqIP # NoIP
           old == o.existingIP # NoIP
       IN  Goto(r, prov[r],
                [o EXCEPT !.hasIP = given \/ old,
                          !.ip = IF given
                                 THEN loadIP(ips, o.reqIP.net, o.reqIP.addr)
                                 ELSE IF old THEN o.existingIP ELSE NoIP,
                          !.network = IF given THEN o.reqIP.net
                                      ELSE o.existingNic.net],
                "prepareUpdate")
    /\ UNCHANGED <<nics, ips, reassigns, netDown, commits, data, call>>

\* prepareUpdate leaving the choice of the MAC to randomMAC.
updateNicFn_randomMAC == "randomMAC"

\* Which function prepareUpdate makes opts.nicFn (part_002:206).
updateNicFn == "addUpdatedNic"

\* removeIPs without the comparison of the owners.
removeIPs_anyOwner(o) ==
    LET oldIPs == IF o.existingIP # NoIP THEN <<o.existingIP>> ELSE <<>>
        newAddrs == {o.ip.addr}
    IN  SelectSeq(oldIPs, LAMBDA oldIP : oldIP.addr \notin newAddrs)

\* The old IPs prepareUpdate queues for freeing (part_002:214-235).
removeIPs(o) ==
    LET oldIPs == IF o.existingIP # NoIP THEN <<o.existingIP>> ELSE <<>>
        nicOwner == o.existingNic.owner
        newAddrs == {o.ip.addr}
    IN  SelectSeq(oldIPs, LAMBDA oldIP :
            oldIP.addr \notin newAddrs /\ nicOwner = oldIP.owner)

\* The new IPs prepareUpdate checks (part_002:238-241).
checkedIPs(o) ==
    LET oldAddrs == IF o.existingIP # NoIP THEN {o.existingIP.addr} ELSE {}
    IN  SelectSeq(<<o.ip>>, LAMBDA newIP : newIP.addr \notin oldAddrs)

\* prepareUpdate (part_002:202-258)
PrepareUpdate(r) ==
    /\ pc[r] = "prepareUpdate"
    /\ LET o == [opts[r] EXCEPT !.nicFn = updateNicFn,
                                !.baseOwner = getUpdatedNicParams(opts[r]).owner]
       IN  IF ~o.hasIP
           THEN NicAndIP(r, o)
           ELSE LET o2 == [o EXCEPT !.provisionableIPs = <<o.ip>>,
                                    !.removeIPs = removeIPs(o)]
                    chk == checkedIPs(o)
                IN  IF \E i \in 1..Len(chk) : ~provisionable(chk[i])
                    THEN Finish(r, prov[r], o2, ipUsedByError)
                    ELSE NicAndIP(r, o2)
    /\ UNCHANGED <<nics, ips, reassigns, netDown, commits, data, call>>

\* An iteration that starts with what the last one left.
resetBatch_none(o) == o

\* The start of an iteration (provision.js:528-532)
resetBatch(o) == [o EXCEPT !.batch = <<>>, !.ips = <<>>]

\* An iteration starts: the reset, then stage 1 (provision.js:528-538). When haveEtagFailure asks for the bucket
\* name of undefined, the call either throws, which ends the request
\* without a callback, or yields a name that matches no bucket.
RunProvisions(r) ==
    /\ pc[r] = "runProvisions"
    /\ \/ \E out \in runProvisions(prov[r], resetBatch(opts[r]), ips) :
            IF out.err # NoErr
            THEN Callback(r, out.p, out.o, out.err)
            ELSE Goto(r, out.p, out.o, "listVnetCns")
       \/ /\ prov[r].type = "ip"
          /\ bucketNameOfUndefined(prov[r], opts[r].err)
          /\ pc' = [pc EXCEPT ![r] = "crashed"]
          /\ opts' = [opts EXCEPT ![r].result = typeError]
          /\ UNCHANGED prov
    /\ UNCHANGED <<nics, ips, reassigns, netDown, commits, data, call>>

\* Stages 2 and 3 (provision.js:541-544): freeOldIPs calls back at once,
\* listVnetCns asks the store for the compute nodes.
ListVnetCns(r) ==
    /\ pc[r] = "listVnetCns"
    /\ Goto(r, prov[r], listVnetCns(freeOldIPs(opts[r])), "nicFn")
    /\ UNCHANGED <<nics, ips, reassigns, netDown, commits, data, call>>

\* Stages 4 and 5 (provision.js:547-550): nicFn builds the NIC, nicBatch
\* adds it to the batch, and the batch is handed to commitBatch.
NicFn(r) ==
    /\ pc[r] = "nicFn"
    /\ \E out \in callNicFn(opts[r]) :
         IF out.err # NoErr
         THEN Callback(r, prov[r], out.o, out.err)
         ELSE Goto(r, prov[r], addNicToBatch(out.o), "commitBatch")
    /\ UNCHANGED <<nics, ips, reassigns, netDown, commits, data, call>>

\* Stage 6, common.commitBatch (provision.js:553): the batch is applied as
\* a whole, or fails with the first conflict and changes nothing.
CommitBatch(r) ==
    /\ pc[r] = "commitBatch"
    /\ LET b == opts[r].batch
       IN  IF conflicts(nics, ips, b) = {}
           THEN /\ nics' = applyNics(nics, b)
                /\ ips' = applyIPs(ips, b)
                /\ commits' = [commits EXCEPT ![r] = @ + 1]
                /\ Callback(r, prov[r], opts[r], NoErr)
           ELSE /\ Callback(r, prov[r], opts[r], commitError(nics, ips, b))
                /\ UNCHANGED <<nics, ips, commits>>
    /\ UNCHANGED <<reassigns, netDown, data, call>>

\* listVnetCns of delete (part_001:45-61)
delListVnetCns(o) ==
    IF o.existingNic.net \in FabricNets
    THEN [o EXCEPT !.vnetCns = cnsOf(o.existingNic.net)]
    ELSE o

\* addNicToBatch of delete (part_001:63-67)
delAddNicToBatch(o) ==
    [o EXCEPT !.batch = <<nicDelBatch(o.existingNic, o.vnetCns)>>]

\* delIP that unassigns the IP whoever owns it.
delIP_anyOwner(o, ip) ==
    [o EXCEPT !.batch = Append(@, ipUnassignBatch(ip))]

\* delIP (part_001:83-96)
delIP(o, ip) ==
    IF ip.owner = o.existingNic.owner
    THEN [o EXCEPT !.batch = Append(@, ipUnassignBatch(ip))]
    ELSE o

\* delIPs (part_001:69-80)
delIPs(o) ==
    IF o.existingNic = NoNic \/ o.existingIP = NoIP
    THEN o
    ELSE delIP(o, o.existingIP)

\* del() whose getExistingNic does not pass on the error of getNic.
Del_dropErr(r) ==
    /\ pc[r] = "idle"
    /\ \E mac \in MACs :
         LET o == [NoOpts EXCEPT !.kind = "delete", !.mac = mac]
             n == getNic(nics, mac).res
             o2 == [o EXCEPT !.existingNic = n,
                             !.existingIP =
                                 IF n.addr # Null
                                 THEN loadIP(ips, n.net, n.addr)
                                 ELSE NoIP]
         IN  Goto(r, NoProv,
                  delIPs(delAddNicToBatch(delListVnetCns(o2))),
                  "delCommit")
    /\ UNCHANGED <<nics, ips, reassigns, netDown, commits, data, call>>

\* DELETE /nics/:mac, del() up to the commit (part_001:106-117): the NIC
\* and its IP are loaded, a missing NIC ends the request, and the batch is
\* built from what was loaded.
Del(r) ==
    /\ pc[r] = "idle"
    /\ \E mac \in MACs :
         LET o == [NoOpts EXCEPT !.kind = "delete", !.mac = mac]
             got == getNic(nics, mac)
         IN  IF got.err # NoErr
             THEN Finish(r, NoProv, o, got.err)
             ELSE LET n == got.res
                      o2 == [o EXCEPT !.existingNic = n,
                                      !.existingIP =
                                          IF n.addr # Null
                                          THEN loadIP(ips, n.net, n.addr)
                                          ELSE NoIP]
                  IN  Goto(r, NoProv,
                           delIPs(delAddNicToBatch(delListVnetCns(o2))),
                           "delCommit")
    /\ UNCHANGED <<nics, ips, reassigns, netDown, commits, data, call>>

\* common.commitBatch as the last stage of del() (part_001:117-125): the
\* first conflict is returned to the caller; there is no retry.
DelCommit(r) ==
    /\ pc[r] = "delCommit"
    /\ LET b == opts[r].batch
       IN  IF conflicts(nics, ips, b) = {}
           THEN /\ nics' = applyNics(nics, b)
                /\ ips' = applyIPs(ips, b)
                /\ commits' = [commits EXCEPT ![r] = @ + 1]
                /\ Finish(r, prov[r], opts[r], OkResult)
           ELSE /\ Finish(r, prov[r], opts[r], commitError(nics, ips, b))
                /\ UNCHANGED <<nics, ips, commits>>
    /\ UNCHANGED <<reassigns, netDown, data, call>>

\* Another operation (an update of the IP record itself) hands an owned IP
\* to another owner.
ReassignIP ==
    /\ reassigns < MaxReassign
    /\ \E x \in Nets \X Addrs, w \in Owners :
         /\ ips[x].exists
         /\ ips[x].owner \notin {"none", w}
         /\ ips' = [ips EXCEPT ![x] = [exists |-> TRUE, owner |-> w,
                                       etag |-> nextEtag(ips[x])]]
    /\ reassigns' = reassigns + 1
    /\ UNCHANGED <<nics, netDown, pc, opts, prov, commits, data, call>>

Step(r) ==
    \/ Create(r)
    \/ GetExistingNic(r)
    \/ ValidateUpdateParams(r)
    \/ PrepareUpdate(r)
    \/ RunProvisions(r)
    \/ ListVnetCns(r)
    \/ NicFn(r)
    \/ CommitBatch(r)
    \/ Del(r)
    \/ DelCommit(r)

Next == (\E r \in Reqs : Step(r)) \/ ReassignIP

Spec == Init /\ [][Next]_vars

\* One request on its own, with the outside reassignment of IPs.
SoloNext == Step("r1") \/ ReassignIP

SoloSpec == Init /\ [][SoloNext]_vars /\ WF_vars(Step("r1"))

\* The store with NIC 1 on N1, every other address of N1 held by records
\* that are no NIC's, and so the first n2 addresses of N2.
PoolInit ==
    /\ nics = InitNics(1)
    /\ \E n2 \in 0..MaxAddr :
          ips = [x \in Nets \X Addrs |->
                    IF x[1] = "N1" \/ x[2] <= n2
                    THEN [exists |-> TRUE, owner |-> "O1", etag |-> 1]
                    ELSE NoIPRec]
    /\ reassigns = 0
    /\ netDown = {}
    /\ data = NoData
    /\ call = NoCall
    /\ pc = [r \in Reqs |-> "idle"]
    /\ opts = [r \in Reqs |-> NoOpts]
    /\ prov = [r \in Reqs |-> NoProv]
    /\ commits = [r \in Reqs |-> 0]

PoolSpec == PoolInit /\ [][SoloNext]_vars /\ WF_vars(Step("r1"))

\* The same stores, with network records that cannot always be fetched:
\* a network's record becomes unavailable, or available again, at any time.
NetFailInit ==
    /\ nics = InitNics(1)
    /\ \E n2 \in 0..MaxAddr :
          ips = [x \in Nets \X Addrs |->
                    IF x[1] = "N1" \/ x[2] <= n2
                    THEN [exists |-> TRUE, owner |-> "O1", etag |-> 1]
                    ELSE NoIPRec]
    /\ reassigns = 0
    /\ netDown \in SUBSET Nets
    /\ data = NoData
    /\ call = NoCall
    /\ pc = [r \in Reqs |-> "idle"]
    /\ opts = [r \in Reqs |-> NoOpts]
    /\ prov = [r \in Reqs |-> NoProv]
    /\ commits = [r \in Reqs |-> 0]

NetFlap ==
    /\ \E n \in Nets :
          netDown' = IF n \in netDown THEN netDown \ {n} ELSE netDown \cup {n}
    /\ UNCHANGED <<nics, ips, reassigns, pc, opts, prov, commits, data, call>>

NetFailNext == SoloNext \/ NetFlap

NetFailSpec == NetFailInit /\ [][NetFailNext]_vars /\ WF_vars(Step("r1"))

\* Requests that name primary, on a store where NIC 1 belongs to the owner
\* of the provisions and is its primary NIC.
PrimaryInit ==
    /\ nics = [InitNics(1) EXCEPT ![1].owner = "O2", ![1].primary = TRUE]
    /\ ips = [InitIPs(1) EXCEPT ![<<"N1", 1>>].owner = "O2"]
    /\ reassigns = 0
    /\ netDown = {}
    /\ data = NoData
    /\ call = NoCall
    /\ pc = [r \in Reqs |-> "idle"]
    /\ opts = [r \in Reqs |-> NoOpts]
    /\ prov = [r \in Reqs |-> NoProv]
    /\ commits = [r \in Reqs |-> 0]

\* One request at a time on a store whose NICs are underlay NICs or not,
\* with updates that name underlay.
UnderlayInit ==
    /\ \E k \in 1..MaxMac, u \in BOOLEAN :
          /\ nics = [m \in MACs |-> IF InitNics(k)[m].exists
                                     THEN [InitNics(k)[m] EXCEPT !.underlay = u]
                                     ELSE InitNics(k)[m]]
          /\ ips = InitIPs(k)
    /\ reassigns = 0
    /\ netDown = {}
    /\ data = NoData
    /\ call = NoCall
    /\ pc = [r \in Reqs |-> "idle"]
    /\ opts = [r \in Reqs |-> NoOpts]
    /\ prov = [r \in Reqs |-> NoProv]
    /\ commits = [r \in Reqs |-> 0]

UnderlayNext == SoloNext \/ UpdateUnderlay("r1")

UnderlaySpec == UnderlayInit /\ [][UnderlayNext]_vars

PrimaryNext == \E r \in Reqs : Step(r) \/ CreatePrimary(r) \/ UpdatePrimary(r)

PrimarySpec == PrimaryInit /\ [][PrimaryNext]_vars

\* A provision of the last MAC with the last address of N1 is under way
\* (Create has run for r1) when the other request comes in.
RaceInit ==
    \E k \in 0..(MaxMac - 1) :
        LET v == addParams(validatedCreate(MaxMac, "O2",
                     [m |-> "ip", net |-> "N1", addr |-> MaxAddr], InitIPs(k)))
        IN  /\ nics = InitNics(k)
            /\ ips = InitIPs(k)
            /\ reassigns = 0
            /\ netDown = {}
            /\ data = NoData
            /\ call = NoCall
            /\ pc = [r \in Reqs |-> IF r = "r1" THEN "runProvisions" ELSE "idle"]
            /\ opts = [r \in Reqs |-> IF r = "r1" THEN v ELSE NoOpts]
            /\ prov = [r \in Reqs |-> IF r = "r1" THEN provisioners(v) ELSE NoProv]
            /\ commits = [r \in Reqs |-> 0]

\* Every request that can take a step eventually takes one: the event loop
\* runs every pending callback.
RaceSpec == RaceInit /\ [][Next]_vars /\ \A r \in Reqs : WF_vars(Step(r))

\* ------------------------------------------------------------------
\* The in-memory nic model: its calls.

\* net.ips.reserved.hasOwnProperty(ip)
isReserved(D, uuid, ip) == D.reserved[<<uuid, ip>>].exists

\* Nic.updateDataStore (part_002:568-586): the nic's entry is written anew
\* and, when the nic has an IP, so is the reserved entry of that IP.
updateDataStore(D, mac, owner, uuid, ip) ==
    IF ip # Null
    THEN [nics |-> [D.nics EXCEPT ![mac] =
                        [exists |-> TRUE, belongs_to_uuid |-> owner,
                         ip |-> ip, network |-> uuid]],
          reserved |-> [D.reserved EXCEPT ![<<uuid, ip>>] =
                        [exists |-> TRUE, nic |-> mac,
                         belongs_to_uuid |-> owner]]]
    ELSE [D EXCEPT !.nics[mac] =
                        [exists |-> TRUE, belongs_to_uuid |-> owner,
                         ip |-> Null, network |-> "none"]]

\* deleteFromDataStore that leaves the reserved entry of the IP in place.
deleteFromDataStore_keepReserved(D, mac) ==
    [D EXCEPT !.nics[mac] = NoMemNic]

\* Nic.deleteFromDataStore (part_002:592-597)
deleteFromDataStore(D, mac) ==
    LET n == D.nics[mac]
    IN  IF n.ip # Null
        THEN [nics |-> [D.nics EXCEPT ![mac] = NoMemNic],
              reserved |-> [D.reserved EXCEPT ![<<n.network, n.ip>>] =
                                NoReserved]]
        ELSE [D EXCEPT !.nics[mac] = NoMemNic]

\* The call ends: its callback gets res.
Return(res) == call' = [NoCall EXCEPT !.result = res]

\* app.writeDataFile: the callback gets its error or the nic; app.data stays
\* as the call left it.
writeDataFile == \E res \in {"ok", "writeError"} : Return(res)

\* createNic from the new Nic on (part_002:662-672)
newNic(c, mac) ==
    /\ data' = updateDataStore(data, mac, c.belongs_to_uuid,
                               IF c.ip # Null THEN c.netUUID ELSE "none",
                               c.ip)
    /\ writeDataFile

\* The random number findNextFreeIP starts at (part_002:336-337):
\* startIP + floor(random * (endIP - startIP)).
startAts(net) ==
    IF net.endIP = net.startIP THEN {net.startIP}
    ELSE net.startIP..(net.endIP - 1)

\* createNic from the MAC on (part_002:644-672): a supplied MAC must be
\* unused; without one findNextFreeMAC starts at a random number.
chooseMac(c) ==
    IF c.hasMac
    THEN IF data.nics[c.mac].exists
         THEN Return("macExists") /\ UNCHANGED data
         ELSE newNic(c, c.mac)
    ELSE /\ \E s \in MemMacs :
              call' = [c EXCEPT !.fn = "findNextFreeMAC", !.startAt = s,
                                !.num = s]
         /\ UNCHANGED data

\* createNic (part_002:608-675) up to the first loop: with params.ip the one
\* matching network is looked up and the address must be free there; with
\* a network and no ip findNextFreeIP starts at a random number.
createNic ==
    /\ call.fn = "none"
    /\ \E params \in MemParams,
          pmac \in MemMacs \cup {Null},
          owner \in Owners :
         LET uuid == params.netUUID
             pip == params.ip
             matching == params.matching
             c == [NoCall EXCEPT !.fn = "createNic", !.netUUID = uuid,
                                 !.hasMac = (pmac # Null), !.mac = pmac,
                                 !.belongs_to_uuid = owner]
         IN  IF pip # Null
             THEN IF matching = "none"
                  THEN Return("noMatchingNetwork") /\ UNCHANGED data
                  ELSE IF isReserved(data, matching, pip)
                  THEN Return("ipTaken") /\ UNCHANGED data
                  ELSE chooseMac([c EXCEPT !.netUUID = matching, !.ip = pip])
             ELSE IF uuid = "none"
             THEN chooseMac(c)
             ELSE IF uuid = "unknown"
             THEN Return("unknownNetwork") /\ UNCHANGED data
             ELSE /\ \E s \in startAts(Network(uuid)) :
                       call' = [c EXCEPT !.fn = "findNextFreeIP",
                                         !.startAt = s, !.ip = s]
                  /\ UNCHANGED data
    /\ UNCHANGED <<nics, ips, reassigns, netDown, pc, opts, prov, commits>>

\* One turn of the loop of findNextFreeIP (part_002:339-350), and what
\* createNic does with what it returns (part_002:637-642).
findNextFreeIP ==
    /\ call.fn = "findNextFreeIP"
    /\ LET net == Network(call.netUUID)
       IN  IF call.ip = call.startAt - 1
           THEN Return("noFreeIP") /\ UNCHANGED data
           ELSE IF ~isReserved(data, call.netUUID, call.ip)
           THEN chooseMac(call)
           ELSE /\ call' = [call EXCEPT !.ip = IF call.ip + 1 = net.endIP + 1
                                                THEN net.startIP
                                                ELSE call.ip + 1]
                /\ UNCHANGED data
    /\ UNCHANGED <<nics, ips, reassigns, netDown, pc, opts, prov, commits>>

\* One turn of the loop of findNextFreeMAC (part_002:390-401), and what
\* createNic does with what it returns (part_002:656-672).
findNextFreeMAC ==
    /\ call.fn = "findNextFreeMAC"
    /\ IF call.num = call.startAt - 1
       THEN Return("noFreeMAC") /\ UNCHANGED data
       ELSE IF ~data.nics[call.num].exists
       THEN newNic(call, call.num)
       ELSE /\ call' = [call EXCEPT !.num = IF call.num + 1 = MemMaxMac + 1
                                             THEN 1 ELSE call.num + 1]
            /\ UNCHANGED data
    /\ UNCHANGED <<nics, ips, reassigns, netDown, pc, opts, prov, commits>>

\* updateNic (part_002:714-741): the nic is looked up, the parameters given
\* replace its own, and the nic is written back.
updateNic ==
    /\ call.fn = "none"
    /\ \E mac \in MemMacs, owner \in Owners \cup {"none"} :
         IF ~data.nics[mac].exists
         THEN Return("unknownMac") /\ UNCHANGED data
         ELSE LET n == data.nics[mac]
              IN  /\ data' = updateDataStore(data, mac,
                                 IF owner # "none" THEN owner
                                 ELSE n.belongs_to_uuid,
                                 n.network, n.ip)
                  /\ writeDataFile
    /\ UNCHANGED <<nics, ips, reassigns, netDown, pc, opts, prov, commits>>

\* deleteNic (part_002:747-766)
deleteNic ==
    /\ call.fn = "none"
    /\ \E mac \in MemMacs :
         IF ~data.nics[mac].exists
         THEN Return("unknownMac") /\ UNCHANGED data
         ELSE /\ data' = deleteFromDataStore(data, mac)
              /\ writeDataFile
    /\ UNCHANGED <<nics, ips, reassigns, netDown, pc, opts, prov, commits>>

\* The in-memory model on its own: the Moray-backed stores are empty and
\* no request of theirs runs.
MemInit ==
    /\ nics = InitNics(0) /\ ips = InitIPs(0)
    /\ reassigns = 0
    /\ netDown = {}
    /\ pc = [r \in Reqs |-> "idle"]
    /\ opts = [r \in Reqs |-> NoOpts]
    /\ prov = [r \in Reqs |-> NoProv]
    /\ commits = [r \in Reqs |-> 0]
    /\ data = NoData
    /\ call = NoCall

MemNext ==
    \/ createNic
    \/ findNextFreeIP
    \/ findNextFreeMAC
    \/ updateNic
    \/ deleteNic

\* A call runs to its end without giving way: a loop that can take another
\* turn takes it.
MemSpec ==
    MemInit /\ [][MemNext]_vars
        /\ WF_vars(findNextFreeIP) /\ WF_vars(findNextFreeMAC)

\* ------------------------------------------------------------------ claims

Provisioned(r) ==
    opts[r].kind = "provision" /\ pc[r] = "done" /\ opts[r].result = OkResult

\* The step is request r's successful commit.
Commits(r) ==
    pc[r] \in {"commitBatch", "delCommit"} /\ commits'[r] = commits[r] + 1

UniqueProvisionedMacs ==
    \A r1, r2 \in Reqs :
        r1 # r2 /\ Provisioned(r1) /\ Provisioned(r2)
            => opts[r1].nic.mac # opts[r2].nic.mac

\* C1: no two successful provisions commit a NIC with the same MAC, and the
\* commit of a provision creates its NIC record under a key that held no
\* record, leaving every other NIC record as it was.
C1_MacUniqueness ==
    [][/\ UniqueProvisionedMacs'
       /\ \A r \in Reqs :
            opts[r].kind = "provision" /\ Commits(r) =>
                /\ ~nics[opts[r].nic.mac].exists
                /\ nics'[opts[r].nic.mac].exists
                /\ \A m \in MACs \ {opts[r].nic.mac} : nics'[m] = nics[m]]_vars

\* A provision has lost the race for a MAC that another provision committed.
C1_Witness ==
    \E r1, r2 \in Reqs :
        /\ r1 # r2
        /\ Provisioned(r1)
        /\ opts[r2].kind = "provision"
        /\ opts[r2].err = EtagConflictError(NicBucket, opts[r1].nic.mac)

\* C2: no two NIC records reference the same address of the same network.
C2_IPUniqueness ==
    \A m1, m2 \in MACs :
        /\ m1 # m2
        /\ nics[m1].exists /\ nics[m2].exists
        /\ nics[m1].addr # Null
        => ~(nics[m1].net = nics[m2].net /\ nics[m1].addr = nics[m2].addr)

\* An item of a batch is what the store holds under the item's key.
ItemApplied(it, N, S) ==
    IF it.op = "nicdel"
    THEN ~N[it.key].exists
    ELSE IF it.op = "unsetPrimary"
    THEN \A m \in MACs \ {it.addr} :
             N[m].exists /\ N[m].owner = it.owner => ~N[m].primary
    ELSE IF it.bucket = NicBucket
    THEN /\ N[it.key].exists
         /\ N[it.key].owner = it.owner
         /\ N[it.key].net = it.net
         /\ N[it.key].addr = it.addr
         /\ N[it.key].primary = it.primary
    ELSE /\ S[<<it.net, it.key>>].exists
         /\ S[<<it.net, it.key>>].owner = it.owner

\* The keys a batch names, and the NICs its update item reaches.
NicKeys(b) ==
    {b[i].key : i \in {j \in 1..Len(b) : b[j].bucket = NicBucket}}
        \cup {m \in MACs : unsetsPrimary(nics, b, m)}
IPKeys(b) ==
    {<<b[i].net, b[i].key>> : i \in {j \in 1..Len(b) : b[j].bucket # NicBucket}}

InFlight(r) == pc[r] \notin {"idle", "done"}

\* C7: the store changes only by the commit of a request's whole batch (or
\* by the outside reassignment of an IP): a commit puts every item of the
\* batch and nothing else, and ends the request with success; a request
\* that is still under way, has returned an error or was abandoned has
\* written nothing.
C7_AtomicCommit ==
    [][/\ store' # store => reassigns' # reassigns \/ \E r \in Reqs : Commits(r)
       /\ \A r \in Reqs :
            /\ Commits(r) =>
                /\ pc'[r] = "done" /\ opts'[r].result = OkResult
                /\ commits'[r] = 1
                /\ \A i \in 1..Len(opts[r].batch) :
                       ItemApplied(opts[r].batch[i], nics', ips')
                /\ \A m \in MACs \ NicKeys(opts[r].batch) : nics'[m] = nics[m]
                /\ \A x \in (Nets \X Addrs) \ IPKeys(opts[r].batch) :
                       ips'[x] = ips[x]
            /\ InFlight(r)' => commits'[r] = 0
            /\ pc'[r] = "done" /\ opts'[r].result # OkResult
                   => commits'[r] = 0]_vars

\* A request has committed an IP and a NIC together while another one,
\* under way, has lost a commit and written nothing.
C7_Witness ==
    \E r1, r2 \in Reqs :
        /\ pc[r1] = "done" /\ commits[r1] = 1
        /\ Len(opts[r1].batch) >= 2
        /\ InFlight(r2) /\ opts[r2].err.name = "EtagConflictError"
        /\ Len(opts[r2].batch) >= 2

\* C8: an update writes the NIC record of the MAC it loaded, built by
\* addUpdatedNic; it creates no record under another MAC.
C8_UpdateKeepsMac ==
    [][\A r \in Reqs :
          opts[r].kind = "update" /\ Commits(r) =>
              /\ opts[r].nicFn = "addUpdatedNic"
              /\ opts[r].nic.mac = opts[r].existingNic.mac
              /\ nics[opts[r].nic.mac].exists
              /\ \A m \in MACs \ {opts[r].existingNic.mac} :
                     nics'[m] = nics[m]]_vars

\* An update that changes the IP has committed while a MAC was still free.
C8_Witness ==
    \E r \in Reqs :
        /\ opts[r].kind = "update" /\ pc[r] = "done" /\ commits[r] = 1
        /\ opts[r].reqIP # NoIP
        /\ \E m \in MACs : ~nics[m].exists

FreeItems(b) == {i \in 1..Len(b) : b[i].op = "free"}

PastPrepareUpdate(r) ==
    /\ opts[r].kind = "update"
    /\ pc[r] \notin {"idle", "validateUpdateParams", "prepareUpdate"}
    /\ opts[r].result # notFoundError

\* C9: an update queues the old IP for freeing exactly when its address is
\* not the requested one and its owner is the NIC's owner as loaded; the
\* batch frees nothing but queued IPs, and never an old IP whose owner
\* differs from the NIC's.
C9_RemoveIPs ==
    \A r \in Reqs :
        PastPrepareUpdate(r) =>
            LET o == opts[r]
                queue == o.existingIP # NoIP
                         /\ o.existingIP.addr # o.ip.addr
                         /\ o.existingIP.owner = o.existingNic.owner
            IN  /\ o.removeIPs = IF queue THEN <<o.existingIP>> ELSE <<>>
                /\ \A i \in FreeItems(o.batch) :
                       \E j \in 1..Len(o.removeIPs) :
                           o.batch[i] = ipFreeBatch(o.removeIPs[j])
                /\ o.existingIP.owner # o.existingNic.owner
                       => FreeItems(o.batch) = {}

\* An update has moved a NIC to another address while the old IP belonged
\* to someone else.
C9_Witness ==
    \E r \in Reqs :
        /\ PastPrepareUpdate(r) /\ pc[r] = "done" /\ commits[r] = 1
        /\ opts[r].existingIP # NoIP
        /\ opts[r].existingIP.owner # opts[r].existingNic.owner
        /\ opts[r].existingIP.addr # opts[r].ip.addr

\* C5: when the previous iteration of a specific-IP provision failed with
\* an etag conflict on that IP's own bucket and key, the next provision
\* call fails with the stop-flagged "IP in use" error: the request does not
\* go on to build and commit a batch again.
C5_SpecificIPConflictStops ==
    \A r \in Reqs :
        /\ opts[r].kind = "provision"
        /\ prov[r].type = "ip"
        /\ opts[r].err = EtagConflictError(bucketName(prov[r].ip.net),
                                           prov[r].ip.addr)
        => /\ pc[r] \in {"runProvisions", "done"}
           /\ pc[r] = "done" => opts[r].result = ipInUseError

\* C3: under fair scheduling every provision ends: it returns the NIC or
\* an error (a request that died of an exception counts as ended here).
C3_ProvisionTerminates ==
    \A r \in Reqs :
        opts[r].kind = "provision" ~> pc[r] \in {"done", "crashed"}

\* C4: when a provision has committed the MAC it was given, any other
\* provision given the same MAC ends without success.
C4_SameMacOneFails ==
    \A r1, r2 \in Reqs :
        (/\ r1 # r2
         /\ Provisioned(r1) /\ opts[r1].nicFn = "macSupplied"
         /\ opts[r2].kind = "provision" /\ opts[r2].nicFn = "macSupplied"
         /\ opts[r2].mac = opts[r1].mac)
        ~> (pc[r2] \in {"done", "crashed"} /\ opts[r2].result # OkResult)

\* All addresses of N1 are taken.
N1Full == \A a \in Addrs : ips[<<"N1", a>>].owner # "none"

\* C6: a pool provision, with all of N1 taken, an address free on N2 and a
\* MAC to be had, ends with success and a NIC whose IP is on N2.
C6_PoolFallback ==
    (/\ opts["r1"].kind = "provision" /\ opts["r1"].pool
     /\ opts["r1"].mac = Null \/ ~nics[opts["r1"].mac].exists
     /\ N1Full
     /\ \E a \in Addrs : ips[<<"N2", a>>].owner = "none")
    ~> (/\ Provisioned("r1")
        /\ opts["r1"].nic.net = "N2"
        /\ nics[opts["r1"].nic.mac].net = "N2"
        /\ ips[<<"N2", opts["r1"].nic.addr>>].owner = opts["r1"].owner)

\* A pool provision has got its IP from N2 after N1 turned out full.
C6_Witness ==
    /\ Provisioned("r1") /\ opts["r1"].pool
    /\ N1Full
    /\ opts["r1"].nic.net = "N2"
    /\ prov["r1"].poolUUIDs = <<>>

\* The owner the store has for the address of an IP object.
StoredOwner(ip) ==
    IF ip = NoIP THEN "none" ELSE ips[<<ip.net, ip.addr>>].owner

\* C10: the update of a NIC from its IP A to a free address B, where A has
\* been handed to another owner, ends, and when it returns it returns
\* success and has left A with that owner (a request that died of an
\* exception counts as ended here).
C10_UpdateAfterReassign ==
    \A r \in Reqs : \A w \in Owners :
        (/\ opts[r].kind = "update" /\ InFlight(r)
         /\ opts[r].existingIP # NoIP /\ opts[r].reqIP # NoIP
         /\ opts[r].reqIP.addr # opts[r].existingIP.addr
         /\ StoredOwner(opts[r].reqIP) = "none"
         /\ w # opts[r].existingNic.owner
         /\ StoredOwner(opts[r].existingIP) = w)
        ~> (/\ pc[r] \in {"done", "crashed"}
            /\ pc[r] = "done" =>
                   /\ opts[r].result = OkResult
                   /\ StoredOwner(opts[r].existingIP) = w)

\* A delete that found its NIC.
Deleting(r) == opts[r].kind = "delete" /\ opts[r].existingNic # NoNic

\* The batch of a delete, as the claim has it, from what the delete loaded.
DelBatchExpected(o) ==
    <<nicDelBatch(o.existingNic, o.vnetCns)>> \o
        (IF o.existingIP # NoIP /\ o.existingIP.owner = o.existingNic.owner
         THEN <<ipUnassignBatch(o.existingIP)>>
         ELSE <<>>)

\* C11: the batch of a delete is the NIC's delete item and, when the NIC
\* has an IP whose owner is the NIC's, one unassign item for that IP and no
\* IP item otherwise; a delete whose IP has another owner still commits;
\* the commit removes the NIC record and keeps the IP record, without
\* owner when it was unassigned and untouched otherwise.
C11_DeleteBatch ==
    [][\A r \in Reqs :
          /\ Deleting(r)' =>
                /\ pc'[r] \in {"delCommit", "done"}
                /\ opts'[r].batch = DelBatchExpected(opts'[r])
          /\ Deleting(r) /\ Commits(r) =>
                LET o == opts[r]
                    x == <<o.existingIP.net, o.existingIP.addr>>
                IN  /\ ~nics'[o.existingNic.mac].exists
                    /\ o.existingIP # NoIP =>
                          /\ ips'[x].exists
                          /\ IF o.existingIP.owner = o.existingNic.owner
                             THEN ips'[x].owner = "none"
                             ELSE ips'[x] = ips[x]]_vars

\* A delete has committed although the IP of its NIC had another owner.
C11_Witness ==
    \E r \in Reqs :
        /\ Deleting(r) /\ pc[r] = "done" /\ commits[r] = 1
        /\ opts[r].existingIP # NoIP
        /\ opts[r].existingIP.owner # opts[r].existingNic.owner
        /\ Len(opts[r].batch) = 1

\* C12: as long as no outside operation has reassigned an IP, every NIC
\* record with an IP references an IP record, of the same network and
\* address, whose owner is the NIC's.
C12_NicIPOwnership ==
    reassigns = 0 =>
        \A m \in MACs :
            nics[m].exists /\ nics[m].addr # Null =>
                /\ ips[<<nics[m].net, nics[m].addr>>].exists
                /\ ips[<<nics[m].net, nics[m].addr>>].owner = nics[m].owner

\* The NIC records that reference the IP at x.
Referrers(x) ==
    {m \in MACs : nics[m].exists /\ nics[m].net = x[1] /\ nics[m].addr = x[2]}

\* C13: as long as no outside operation has reassigned an IP, every IP
\* record that has an owner is referenced by exactly one NIC record.
C13_OwnedIPReferenced ==
    reassigns = 0 =>
        \A x \in Nets \X Addrs :
            ips[x].exists /\ ips[x].owner # "none"
                => Cardinality(Referrers(x)) = 1

\* ------------------------------------------------------------------ C14

Primaries(o) == {m \in MACs : nics[m].exists /\ nics[m].owner = o /\ nics[m].primary}

OnePrimaryPerOwner == \A o \in Owners : Cardinality(Primaries(o)) <= 1

\* The puts of primary NICs in a batch.
PrimaryPuts(b) == {i \in 1..Len(b) : b[i].op = "nicput" /\ b[i].primary}

LoopStages == {"runProvisions", "listVnetCns", "nicFn", "commitBatch"}

\* Request r takes a step.
Moves(r) == pc'[r] # pc[r] \/ opts'[r] # opts[r] \/ prov'[r] # prov[r]

\* The errors (NoErr: none) the stage r is at can call back with, in the
\* current state.
StageErrs(r) ==
    CASE pc[r] = "runProvisions" ->
            {out.err : out \in runProvisions(prov[r], resetBatch(opts[r]), ips)}
      [] pc[r] = "nicFn" -> {out.err : out \in callNicFn(opts[r])}
      [] pc[r] = "commitBatch" ->
            IF conflicts(nics, ips, opts[r].batch) = {} THEN {NoErr}
            ELSE {commitError(nics, ips, opts[r].batch)}
      [] OTHER -> {NoErr}

\* C15: a stage that fails with a stop-flagged error ends the request in
\* that step with exactly that error: the request goes on to a later stage
\* or to another iteration only on an outcome without the stop flag, a stage
\* that can only fail with stop-flagged errors ends the request, a request
\* that ended with a stop-flagged error has committed nothing, and a
\* request that has ended does nothing more.
C15_StopEndsLoop ==
    [][\A r \in Reqs :
        /\ pc[r] \in LoopStages /\ Moves(r) =>
            /\ pc'[r] = "runProvisions" =>
                   /\ opts'[r].err \in StageErrs(r) \ {NoErr}
                   /\ ~opts'[r].err.stop
            /\ pc'[r] \in LoopStages \ {"runProvisions"} =>
                   NoErr \in StageErrs(r)
            /\ pc'[r] = "done" /\ opts'[r].result # OkResult =>
                   /\ opts'[r].result \in StageErrs(r)
                   /\ opts'[r].result.stop
                   /\ store' = store
                   /\ commits'[r] = 0 /\ commits[r] = 0
            /\ (\A e \in StageErrs(r) : e.stop) => pc'[r] = "done"
        /\ pc[r] = "done" =>
            pc'[r] = "done" /\ opts'[r] = opts[r] /\ commits'[r] = commits[r]
      ]_vars

\* A request ended with a stop-flagged error of nicFn in its second
\* iteration, and one with a stop-flagged error of its provisioner; neither
\* has committed.
C15_Witness ==
    /\ \E r \in Reqs :
          /\ pc[r] = "done" /\ opts[r].result = duplicateMacError
          /\ opts[r].err.name = "EtagConflictError" /\ commits[r] = 0
    /\ \E r \in Reqs :
          /\ pc[r] = "done" /\ opts[r].result.stop
          /\ opts[r].result.name = "SubnetFullError" /\ commits[r] = 0

\* ------------------------------------------------------------------ C16

\* C16: a stage that can only fail, and only without the stop flag, sends
\* the request into another iteration; a request that starts another
\* iteration has in opts.err the error its stage has just failed with; and
\* the steps inside an iteration leave opts.err alone, so the provisioners
\* and nicFn of the next iteration see that error.
C16_ErrOfPreviousIteration ==
    [][\A r \in Reqs :
        pc[r] \in LoopStages /\ Moves(r) =>
            /\ (\A e \in StageErrs(r) : e # NoErr /\ ~e.stop) =>
                   pc'[r] = "runProvisions"
            /\ pc'[r] = "runProvisions" =>
                   /\ opts'[r].err \in StageErrs(r) \ {NoErr}
                   /\ pc[r] = "commitBatch" =>
                          opts'[r].err = commitError(nics, ips, opts[r].batch)
            /\ pc'[r] \in LoopStages \ {"runProvisions"} =>
                   opts'[r].err = opts[r].err
      ]_vars

\* In a later iteration nicFn is about to see the conflict on the NIC
\* bucket that failed the commit of the iteration before, and the pool
\* provisioner the subnet-full error of the network it tried.
C16_Witness ==
    /\ \E r \in Reqs :
          /\ pc[r] = "nicFn" /\ opts[r].err.name = "EtagConflictError"
          /\ opts[r].err.bucket = NicBucket
    /\ \E r \in Reqs :
          /\ pc[r] = "runProvisions" /\ prov[r].type = "pool"
          /\ opts[r].err.name = "SubnetFullError" /\ ~opts[r].err.stop

\* ------------------------------------------------------------------ C17

\* The batch items of the IPs in opts.ips, and of the IPs to free.
IPItems(o) == [i \in 1..Len(o.ips) |-> ipBatch(o.ips[i])]
FreeItemsOf(o) == [i \in 1..Len(o.removeIPs) |-> ipFreeBatch(o.removeIPs[i])]

\* C17: in every iteration, the first one and the later ones, opts.ips
\* holds what this iteration's provisioner selected, at most one IP, when
\* nicFn runs, and the batch holds this iteration's items only: the puts of
\* opts.ips after the provisioners, then the frees of the old IPs, then the
\* items of the NIC when it is handed to the commit.
C17_BatchOfThisIteration ==
    \A r \in Reqs :
        LET o == opts[r]
        IN  /\ pc[r] \in {"listVnetCns", "nicFn", "commitBatch"} =>
                   /\ Len(o.ips) <= 1
                   /\ Len(o.ips) = IF prov[r].type = "none" THEN 0 ELSE 1
                   /\ \A i \in 1..Len(o.ips) : o.ips[i] = prov[r].ip
            /\ pc[r] = "listVnetCns" => o.batch = IPItems(o)
            /\ pc[r] = "nicFn" => o.batch = IPItems(o) \o FreeItemsOf(o)
            /\ pc[r] = "commitBatch" =>
                   o.batch = IPItems(o) \o FreeItemsOf(o)
                                 \o nicBatchItems(o.nic, o.vnetCns)

\* A request is about to commit the batch of a later iteration: one IP,
\* the free of the old IP and the NIC.
C17_Witness ==
    \E r \in Reqs :
        /\ pc[r] = "commitBatch" /\ opts[r].err # NoErr
        /\ Len(opts[r].ips) = 1 /\ Len(opts[r].removeIPs) = 1
        /\ Len(opts[r].batch) = 3

\* ------------------------------------------------------------------ C18

\* The previous error is an etag conflict on the key of the provisioner's
\* current IP in the bucket of its network.
ConflictOnOwnIP(r) ==
    /\ opts[r].err.name = "EtagConflictError"
    /\ opts[r].err.bucket = bucketName(prov[r].network.uuid)
    /\ opts[r].err.key = prov[r].ip.addr

\* C18: when a NetworkProvision runs without an IP, or after an etag
\* conflict on its own IP, it takes a new IP from the store, one that is
\* free there and carries the store's etag, or ends the request with
\* SubnetFullError when the network has none; in every other case it keeps
\* its IP and batches it again.
C18_NetworkProvisionFetch ==
    [][\A r \in Reqs :
        pc[r] = "runProvisions" /\ prov[r].type = "net" /\ Moves(r) =>
            LET net == prov[r].network.uuid
                new == prov'[r].ip
            IN  IF prov[r].ip = NoIP \/ ConflictOnOwnIP(r)
                THEN \/ /\ pc'[r] = "listVnetCns"
                        /\ new # prov[r].ip
                        /\ new.net = net
                        /\ ips[<<net, new.addr>>].owner = "none"
                        /\ new.etag = ips[<<net, new.addr>>].etag
                        /\ opts'[r].ips = <<new>>
                     \/ /\ pc'[r] = "done"
                        /\ opts'[r].result.name = "SubnetFullError"
                        /\ \A a \in Addrs : ips[<<net, a>>].owner # "none"
                ELSE /\ pc'[r] = "listVnetCns"
                     /\ prov'[r] = prov[r]
                     /\ opts'[r].ips = <<prov[r].ip>>
                     /\ opts'[r].batch = <<ipBatch(prov[r].ip)>>
      ]_vars

\* A NetworkProvision has committed the IP it kept through a conflict on
\* the NIC bucket, and after the conflict this caused on its own IP another
\* one has taken a new IP.
C18_Witness ==
    /\ \E r \in Reqs :
          /\ pc[r] = "done" /\ commits[r] = 1 /\ prov[r].type = "net"
          /\ opts[r].err.name = "EtagConflictError"
          /\ opts[r].err.bucket = NicBucket
          /\ opts[r].ips = <<prov[r].ip>>
    /\ \E r \in Reqs :
          /\ pc[r] = "listVnetCns" /\ prov[r].type = "net"
          /\ opts[r].err.name = "EtagConflictError"
          /\ opts[r].err.bucket = bucketName(prov[r].network.uuid)
          /\ opts[r].ips = <<prov[r].ip>>

\* ------------------------------------------------------------------ C19

\* The previous error says that the provisioner's current network is full.
SubnetFullOnOwnNet(r) ==
    /\ opts[r].err.name = "SubnetFullError"
    /\ opts[r].err.network_uuid = prov[r].network.uuid

\* C19: a NetworkPoolProvision takes the next network of its queue when it
\* has no network yet or the previous error is the subnet-full error of its
\* current network, and in no other case (the network becomes the head of
\* the queue, unless its record cannot be fetched, which fails the
\* iteration); when the queue is empty at that point the request ends with
\* the stop-flagged pool-full error and the store as it was.
C19_PoolAdvance ==
    [][\A r \in Reqs :
        pc[r] = "runProvisions" /\ prov[r].type = "pool" /\ Moves(r) =>
            IF prov[r].network = NoNet \/ SubnetFullOnOwnNet(r)
            THEN IF prov[r].poolUUIDs = <<>>
                 THEN /\ pc'[r] = "done"
                      /\ opts'[r].result = poolFullError
                      /\ opts'[r].result.stop
                      /\ store' = store /\ commits'[r] = 0
                 ELSE /\ prov'[r].poolUUIDs = Tail(prov[r].poolUUIDs)
                      /\ pc'[r] \in {"listVnetCns", "runProvisions"}
                      /\ IF Head(prov[r].poolUUIDs) \in netDown
                         THEN /\ prov'[r].network = prov[r].network
                              /\ pc'[r] = "runProvisions"
                              /\ opts'[r].err = netGetError
                         ELSE prov'[r].network =
                                  NetObj(Head(prov[r].poolUUIDs))
            ELSE /\ prov'[r].network = prov[r].network
                 /\ prov'[r].poolUUIDs = prov[r].poolUUIDs
                 /\ pc'[r] \in {"listVnetCns", "runProvisions"}
      ]_vars

\* A pool provision has ended with the pool-full error after the last
\* network of the pool turned out full.
C19_Witness ==
    /\ pc["r1"] = "done" /\ opts["r1"].result = poolFullError
    /\ prov["r1"].network = NetObj(PoolNetworks[Len(PoolNetworks)])
    /\ prov["r1"].poolUUIDs = <<>>
    /\ opts["r1"].err = [SubnetFullError(prov["r1"].network.uuid)
                            EXCEPT !.stop = FALSE]
    /\ commits["r1"] = 0

\* ------------------------------------------------------------------ C20

\* How many networks of the pool a provisioner has selected so far.
Selected(p) == Len(PoolNetworks) - Len(p.poolUUIDs)

\* C20: a NetworkPoolProvision that has taken i networks from its queue
\* has the networks after the i-th of pool.networks, in their order, still
\* in the queue, and is on one of the first i; the number of networks taken
\* never goes down, and the network changes only when it goes up, to the
\* network just taken: every network is selected at most once and in the
\* order of pool.networks.
C20_PoolOrder ==
    /\ [](\A r \in Reqs :
            prov[r].type = "pool" =>
                LET i == Selected(prov[r])
                IN  /\ i \in 0..Len(PoolNetworks)
                    /\ prov[r].poolUUIDs =
                           SubSeq(PoolNetworks, i + 1, Len(PoolNetworks))
                    /\ prov[r].network \in
                           {NoNet} \cup {NetObj(PoolNetworks[j]) : j \in 1..i})
    /\ [][\A r \in Reqs :
            prov[r].type = "pool" =>
                /\ prov'[r].type = "pool"
                /\ Selected(prov'[r]) \in
                       {Selected(prov[r]), Selected(prov[r]) + 1}
                /\ prov'[r].network # prov[r].network =>
                       /\ Selected(prov'[r]) = Selected(prov[r]) + 1
                       /\ prov'[r].network =
                              NetObj(PoolNetworks[Selected(prov'[r])])]_vars

\* A pool provision is on the second network of the pool, with an IP of
\* it, after the first one turned out full.
C20_Witness ==
    /\ pc["r1"] = "listVnetCns" /\ prov["r1"].type = "pool"
    /\ Selected(prov["r1"]) = 2
    /\ prov["r1"].network = NetObj(PoolNetworks[2])
    /\ opts["r1"].err.name = "SubnetFullError"
    /\ opts["r1"].err.network_uuid = PoolNetworks[1]
    /\ prov["r1"].ip.net = PoolNetworks[2]

\* ------------------------------------------------------------------ C21

\* Every address of network n is taken.
NetFull(n) == \A a \in Addrs : ips[<<n, a>>].owner # "none"

\* C21: a request ends with the pool-full error only after every network
\* of the pool has reported subnet-full to it. While one request runs on
\* its own no address is given back, so a network that has reported
\* subnet-full is still full when the request ends: a request that has
\* ended with pool-full leaves every network of the pool full.
C21_PoolFullAfterAll ==
    \A r \in Reqs :
        pc[r] = "done" /\ opts[r].result = poolFullError =>
            \A i \in 1..Len(PoolNetworks) : NetFull(PoolNetworks[i])

\* ------------------------------------------------------------------ C22

\* C22: a NetworkProvision that has to fetch an IP on a full network ends
\* the request in that step with the stop-flagged SubnetFullError of the
\* network, the store as it was; a subnet-full error is kept for another
\* iteration only by a NetworkPoolProvision, and then without the stop
\* flag; and a pool request never ends with the subnet-full error.
C22_SubnetFullStop ==
    [][\A r \in Reqs :
        pc[r] = "runProvisions" /\ Moves(r) =>
            /\ (/\ prov[r].type = "net"
                /\ prov[r].ip = NoIP \/ ConflictOnOwnIP(r)
                /\ NetFull(prov[r].network.uuid)) =>
                   /\ pc'[r] = "done"
                   /\ opts'[r].result = SubnetFullError(prov[r].network.uuid)
                   /\ opts'[r].result.stop
                   /\ store' = store /\ commits'[r] = 0
            /\ (pc'[r] = "runProvisions"
                    /\ opts'[r].err.name = "SubnetFullError") =>
                   /\ prov[r].type = "pool"
                   /\ ~opts'[r].err.stop
                   /\ opts'[r].err.network_uuid = prov'[r].network.uuid
                   /\ NetFull(prov'[r].network.uuid)
            /\ (pc'[r] = "done" /\ prov[r].type = "pool") =>
                   opts'[r].result.name # "SubnetFullError"
      ]_vars

\* A single-network provision has ended with the stop-flagged subnet-full
\* error of its network while a pool provision, told that the same network
\* is full, is in its next iteration on another network.
C22_Witness ==
    \E r1, r2 \in Reqs :
        /\ pc[r1] = "done" /\ prov[r1].type = "net" /\ commits[r1] = 0
        /\ opts[r1].result = SubnetFullError(prov[r1].network.uuid)
        /\ prov[r2].type = "pool" /\ pc[r2] = "listVnetCns"
        /\ opts[r2].err.name = "SubnetFullError" /\ ~opts[r2].err.stop
        /\ opts[r2].err.network_uuid = prov[r1].network.uuid
        /\ prov[r2].network.uuid # prov[r1].network.uuid

\* ------------------------------------------------------------------ C23

\* The previous error is an etag conflict on the NIC-bucket key of the MAC
\* the request supplied.
ConflictOnOwnMac(r) ==
    /\ opts[r].err.name = "EtagConflictError"
    /\ opts[r].err.bucket = NicBucket
    /\ opts[r].err.key = opts[r].mac

NeedsNewMac(r) == opts[r].mac = Null \/ nicEtagFail(opts[r].err)

\* C24 as claimed: a request generates at most MAC_RETRIES candidate MACs
\* (opts.macTries counts them).
C24_AtMostRetries ==
    \A r \in Reqs : opts[r].macTries <= MAC_RETRIES

\* C24 as amended: a request generates at most MAC_RETRIES + 1 candidate
\* MACs; randomMAC generates another candidate as long as no more than
\* MAC_RETRIES were generated, and when the candidate number
\* MAC_RETRIES + 1 has failed with a conflict on the NIC bucket the next
\* call ends the request with the stop-flagged no-more-free-MACs error.
C24_AtMostRetriesPlusOne ==
    /\ [](\A r \in Reqs : opts[r].macTries <= MAC_RETRIES + 1)
    /\ [][\A r \in Reqs :
            (/\ pc[r] = "nicFn" /\ opts[r].nicFn = "randomMAC"
             /\ Moves(r) /\ NeedsNewMac(r)) =>
                IF opts[r].macTries = MAC_RETRIES + 1
                THEN /\ pc'[r] = "done"
                     /\ opts'[r].result = noFreeMacError
                     /\ opts'[r].result.stop
                     /\ opts'[r].macTries = opts[r].macTries
                ELSE /\ pc'[r] = "commitBatch"
                     /\ opts'[r].macTries = opts[r].macTries + 1
                     /\ opts'[r].nic.mac = opts'[r].mac]_vars

\* A request has ended with the no-more-free-MACs error after
\* MAC_RETRIES + 1 candidates, the last of which failed on the NIC bucket.
C24_Witness ==
    \E r \in Reqs :
        /\ pc[r] = "done" /\ opts[r].result = noFreeMacError
        /\ opts[r].macTries = MAC_RETRIES + 1
        /\ nicEtagFail(opts[r].err) /\ commits[r] = 0

\* ------------------------------------------------------------------ C25

\* C25: when randomMAC runs with a MAC already chosen and a previous error
\* that is no etag conflict on the NIC bucket, it builds the NIC with that
\* MAC and this iteration's IP, without an etag, and leaves the MAC and
\* macTries as they were.
C25_ReuseMac ==
    [][\A r \in Reqs :
        (/\ pc[r] = "nicFn" /\ opts[r].nicFn = "randomMAC" /\ Moves(r)
         /\ opts[r].mac # Null /\ ~nicEtagFail(opts[r].err)) =>
            /\ pc'[r] = "commitBatch"
            /\ opts'[r].mac = opts[r].mac
            /\ opts'[r].macTries = opts[r].macTries
            /\ opts'[r].nic =
                   nicWithIPs(opts[r].mac, opts[r].owner, Null, opts[r].ips,
                              opts[r].primary)
      ]_vars

\* After its IP was taken from under it, a request is about to commit
\* again with the MAC it generated first.
C25_Witness ==
    \E r \in Reqs :
        /\ pc[r] = "commitBatch" /\ opts[r].nicFn = "randomMAC"
        /\ opts[r].err.name = "EtagConflictError"
        /\ opts[r].err.bucket # NicBucket
        /\ opts[r].macTries = 1
        /\ opts[r].nic.mac = opts[r].mac
        /\ Len(opts[r].ips) = 1 /\ opts[r].ips[1].addr # opts[r].err.key

\* ------------------------------------------------------------------ C26

\* C26: every MAC that randomMAC puts into a NIC is a MAC number of the
\* configured OUI, and a randomMAC step that follows an etag conflict on
\* the NIC bucket moves to the previous MAC plus one, or to some MAC of the
\* OUI when the previous MAC was the OUI's last.
C26_MacInOUI ==
    /\ [](\A r \in Reqs :
            (opts[r].nicFn = "randomMAC" /\ opts[r].nic # NoNic) =>
                opts[r].nic.mac \in MACs)
    /\ [][\A r \in Reqs :
            (/\ pc[r] = "nicFn" /\ opts[r].nicFn = "randomMAC" /\ Moves(r)
             /\ opts[r].mac # Null /\ nicEtagFail(opts[r].err)
             /\ pc'[r] = "commitBatch") =>
                /\ opts'[r].nic.mac = opts'[r].mac
                /\ IF opts[r].mac + 1 <= MaxMac
                   THEN opts'[r].mac = opts[r].mac + 1
                   ELSE opts'[r].mac \in randomNum
          ]_vars

\* One request is about to commit the MAC after the one it lost, another
\* one a MAC drawn again after it lost the last MAC of the OUI.
C26_Witness ==
    \E r, q \in Reqs :
        /\ pc[r] = "commitBatch" /\ opts[r].nicFn = "randomMAC"
        /\ nicEtagFail(opts[r].err)
        /\ opts[r].nic.mac = opts[r].err.key + 1
        /\ pc[q] = "commitBatch" /\ opts[q].nicFn = "randomMAC"
        /\ nicEtagFail(opts[q].err)
        /\ opts[q].err.key = MaxMac /\ opts[q].macTries = 2
        /\ opts[q].nic.mac \in MACs

\* ------------------------------------------------------------------ C27

\* What listVnetCns finds for the IPs of this iteration: the compute nodes
\* of the fabric network among them, "none" without one.
CnsOfIPs(o) ==
    LET fab == {i \in 1..Len(o.ips) : o.ips[i].net \in FabricNets}
    IN  IF fab = {} THEN "none"
        ELSE cnsOf(o.ips[CHOOSE i \in fab : TRUE].net)

\* C27: once the NIC of a provision or an update is batched, opts.vnetCns
\* and the vnetCns the NIC's put was built with are the compute nodes of the
\* fabric network of the IPs selected in this iteration, and nothing when
\* none of them is on a fabric network.
C27_VnetCnsOfIteration ==
    \A r \in Reqs :
        (pc[r] = "commitBatch" /\ opts[r].kind \in {"provision", "update"}) =>
            /\ opts[r].vnetCns = CnsOfIPs(opts[r])
            /\ \A i \in 1..Len(opts[r].batch) :
                   (opts[r].batch[i].bucket = NicBucket
                    /\ opts[r].batch[i].op = "nicput") =>
                       opts[r].batch[i].vnetCns = CnsOfIPs(opts[r])

\* ------------------------------------------------------------------ C28

\* The update asks for an IP that is not the one the NIC holds.
ChangesIP(r) ==
    /\ opts[r].kind = "update" /\ opts[r].reqIP # NoIP
    /\ <<opts[r].ip.net, opts[r].ip.addr>> #
           <<opts[r].existingNic.net, opts[r].existingNic.addr>>

\* C28: when prepareUpdate runs for an update to another IP whose record is
\* not provisionable, the request ends there with the IP-used-by error:
\* the retry loop is not entered, nothing is committed and the stores stay
\* as they are.
C28_UsedIPRefused ==
    [][\A r \in Reqs :
        (/\ pc[r] = "prepareUpdate" /\ Moves(r)
         /\ ChangesIP(r) /\ ~provisionable(opts[r].ip)) =>
            /\ pc'[r] = "done"
            /\ opts'[r].result = ipUsedByError
            /\ commits'[r] = 0
            /\ nics' = nics /\ ips' = ips
      ]_vars

\* ------------------------------------------------------------------ C29

\* C29: when an update that names underlay commits, the NIC record under
\* its MAC has the underlay that the update named.
C29_UnderlayApplied ==
    [][\A r \in Reqs :
        (/\ pc[r] = "commitBatch" /\ opts[r].kind = "update"
         /\ opts[r].hasUnderlay
         /\ pc'[r] = "done" /\ opts'[r].result = OkResult) =>
            nics'[opts[r].mac].underlay = opts[r].underlay
      ]_vars

\* ------------------------------------------------------------------ C30

\* C30: every update that has loaded its NIC comes to an end, whatever is
\* done to the records it loaded before it commits (a request that died of
\* an exception counts as ended here).
C30_UpdateTerminates ==
    \A r \in Reqs :
        (opts[r].kind = "update" /\ InFlight(r))
            ~> (pc[r] \in {"done", "crashed"})

\* ------------------------------------------------------------------ C31

\* C31: an update or a delete that names a MAC without a NIC record ends
\* in its first step with the not-found error: no batch is built, nothing
\* is committed and the stores are left as they were, then and afterwards.
C31_NotFound ==
    /\ [][\A r \in Reqs :
            (/\ pc[r] = "idle" /\ pc'[r] # "idle"
             /\ opts'[r].kind \in {"update", "delete"}
             /\ ~nics[opts'[r].mac].exists) =>
                /\ pc'[r] = "done"
                /\ opts'[r].result = notFoundError
                /\ opts'[r].batch = <<>>
                /\ opts'[r].existingNic = NoNic
                /\ commits'[r] = commits[r]
                /\ nics' = nics /\ ips' = ips
          ]_vars
    /\ [](\A r \in Reqs :
            opts[r].result = notFoundError =>
                pc[r] = "done" /\ commits[r] = 0 /\ opts[r].batch = <<>>)

\* An update and a delete have both ended with the not-found error on a
\* MAC that has no record.
C31_Witness ==
    \E r, q \in Reqs :
        /\ opts[r].kind = "update" /\ opts[q].kind = "delete"
        /\ pc[r] = "done" /\ pc[q] = "done"
        /\ opts[r].result = notFoundError /\ opts[q].result = notFoundError
        /\ ~nics[opts[r].mac].exists /\ ~nics[opts[q].mac].exists
        /\ commits[r] = 0 /\ commits[q] = 0

\* ------------------------------------------------------------------ C32

\* C32: a call of the in-memory findNextFreeIP comes to an end, whatever
\* the reserved addresses of the network and the number it starts at.
C32_FindNextFreeIPEnds ==
    (call.fn = "findNextFreeIP") ~> (call.fn # "findNextFreeIP")

\* ------------------------------------------------------------------ C33

\* The addresses of the network's range that are not reserved.
FreeIPs(uuid) ==
    {a \in Network(uuid).startIP..Network(uuid).endIP :
        ~isReserved(data, uuid, a)}

\* C33: when the in-memory findNextFreeIP returns, it returns the 'No more
\* free IPs' error only if every address of the network's range is
\* reserved, and otherwise an address of the range that is not reserved.
C33_FindNextFreeIPResult ==
    [][(call.fn = "findNextFreeIP" /\ call'.fn # "findNextFreeIP") =>
          IF call'.result = "noFreeIP"
          THEN FreeIPs(call.netUUID) = {}
          ELSE call.ip \in FreeIPs(call.netUUID)
      ]_vars

\* ------------------------------------------------------------------ C34

\* The nics of the in-memory model that hold an IP.
NicsWithIP == {m \in MemMacs : data.nics[m].exists /\ data.nics[m].ip # Null}

\* C34: in the in-memory model every reserved entry names a nic that
\* exists and whose network and ip are the entry's key, every nic with an
\* IP has its reserved entry, and no two nics hold the same network and ip.
C34_ReservedMatchesNics ==
    /\ \A x \in MemNets \X MemIPs :
          data.reserved[x].exists =>
              LET n == data.nics[data.reserved[x].nic]
              IN  n.exists /\ n.network = x[1] /\ n.ip = x[2]
    /\ \A m \in NicsWithIP :
          LET e == data.reserved[<<data.nics[m].network, data.nics[m].ip>>]
          IN  e.exists /\ e.nic = m
    /\ \A m1, m2 \in NicsWithIP :
          m1 # m2 =>
              <<data.nics[m1].network, data.nics[m1].ip>> #
                  <<data.nics[m2].network, data.nics[m2].ip>>

\* Every MAC has a nic with an IP, two of them with the same IP number on
\* different networks and with different owners, and the last call has
\* returned its nic.
C34_Witness ==
    /\ NicsWithIP = MemMacs
    /\ \E m1, m2 \in MemMacs :
          /\ data.nics[m1].ip = data.nics[m2].ip
          /\ data.nics[m1].network # data.nics[m2].network
          /\ data.nics[m1].belongs_to_uuid # data.nics[m2].belongs_to_uuid
    /\ call.fn = "none" /\ call.result = "ok"

====
